---- MODULE Spec2Model ----
(***************************************************************************)
(* A model of the fmter package: the dispatcher (Write, Marshal), the      *)
(* per-item override (Formatter), the per-format renderers and the         *)
(* streaming layer (WriteIter, WriteChan).                                 *)
(*                                                                         *)
(* Text is modelled as a sequence of tokens: a token stands for a fixed    *)
(* run of bytes (a literal, or the rendering of one value of one item),    *)
(* so two outputs are byte-identical when their token sequences are equal. *)
(* A sink write (one call of io.Writer.Write) appends a chunk of tokens.   *)
(***************************************************************************)
EXTENDS Integers, Sequences, FiniteSets, TLC

\* ---------------------------------------------------------------- bounds
MaxItems == 3          \* longest batch / longest produced sequence
MaxFail == 2           \* the sink fails after 0..MaxFail accepted writes, or never
ChanCap == 1           \* capacity of the channel handed to WriteChan

\* ------------------------------------------------------- strings and tags
\* A Go string is a sequence of one-character strings.
JSON == <<"j", "s", "o", "n">>
YAML == <<"y", "a", "m", "l">>
CSV == <<"c", "s", "v">>
Table == <<"t", "a", "b", "l", "e">>
Markdown == <<"m", "a", "r", "k", "d", "o", "w", "n">>
List == <<"l", "i", "s", "t">>
ENV == <<"e", "n", "v">>
Plain == <<"p", "l", "a", "i", "n">>
TSV == <<"t", "s", "v">>
JSONL == <<"j", "s", "o", "n", "l">>
HTML == <<"h", "t", "m", "l">>

goTemplatePrefix == <<"g", "o", "-", "t", "e", "m", "p", "l", "a", "t", "e", "=">>

formats == <<JSON, YAML, CSV, Table, Markdown, List, ENV, Plain, TSV, JSONL, HTML>>

\* strings.HasPrefix
HasPrefix(s, p) == Len(s) >= Len(p) /\ SubSeq(s, 1, Len(p)) = p

\* strings.CutPrefix: the text after the prefix (only used when HasPrefix holds)
CutPrefix(s, p) == SubSeq(s, Len(p) + 1, Len(s))

GoTemplate(tmpl) == goTemplatePrefix \o tmpl

\* Template sources used as inputs: one action, literal text, an unterminated action.
TmplDot == <<"{", "{", ".", "}", "}">>
TmplText == <<"x">>
TmplBad == <<"{", "{">>

\* Tags that are neither static nor template-prefixed.
XML == <<"x", "m", "l">>
Empty == <<>>
NearMiss == <<"g", "o", "-", "t", "e", "m", "p", "l", "a", "t", "e">>

Tags == {formats[i] : i \in 1..Len(formats)}
          \cup {GoTemplate(TmplDot), GoTemplate(TmplText), GoTemplate(TmplBad)}
          \cup {XML, Empty, NearMiss}

IsStatic(f) == \E i \in 1..Len(formats) : formats[i] = f

\* text/template Parse: the source is scanned left to right; every "{{" must be
\* closed by a later "}}".  Returns TRUE when the source parses.
RECURSIVE ParseScan(_, _, _)
ParseScan(t, i, open) ==
  IF i > Len(t) THEN ~open
  ELSE IF ~open /\ i < Len(t) /\ t[i] = "{" /\ t[i + 1] = "{" THEN ParseScan(t, i + 2, TRUE)
  ELSE IF open /\ i < Len(t) /\ t[i] = "}" /\ t[i + 1] = "}" THEN ParseScan(t, i + 2, FALSE)
  ELSE ParseScan(t, i + 1, open)

TemplateParses(t) == ParseScan(t, 1, FALSE)

\* ------------------------------------------------------------ error kinds
OK == "nil"
ErrUnsupportedFormat == "ErrUnsupportedFormat"
ErrMissingInterface == "ErrMissingInterface"
ErrInvalidTemplate == "ErrInvalidTemplate"
ErrWrite == "sink write error"
ErrFormat == "Format error"
ErrEncode == "encode error"
Panic == "panic"

\* ----------------------------------------------------------------- tokens
\* k: kind of text; s: where the text comes from ("row", "hdr", ...);
\* i: id of the item the bytes were produced for (0: framing, not an item);
\* c: a column or row number; v: a string attribute (indent, delimiter, style).
Tok(k, s, i, c, v) == [k |-> k, s |-> s, i |-> i, c |-> c, v |-> v]
Lit(v) == Tok("lit", "", 0, 0, v)
NL == Lit("\n")

\* ------------------------------------------------------------------- sink
\* A sink either accepts every write, or accepts its first `at` writes and
\* fails every later one (errWriter, failAfterN of the test suite).
SinkPlans == {[fails |-> FALSE, at |-> 0]} \cup {[fails |-> TRUE, at |-> n] : n \in 0..MaxFail}
Reliable == [fails |-> FALSE, at |-> 0]

\* out: bytes accepted; calls: Write calls made; failed: a call has returned
\* an error; late: calls made after a call had already failed.
NewSink(plan) == [out |-> <<>>, calls |-> 0, plan |-> plan, failed |-> FALSE, late |-> 0]

SinkFails(w) == w.plan.fails /\ w.calls >= w.plan.at

\* io.Writer.Write(chunk)
SinkWrite(w, chunk) ==
  IF SinkFails(w)
    THEN [w EXCEPT !.calls = @ + 1, !.failed = TRUE, !.late = @ + (IF w.failed THEN 1 ELSE 0)]
    ELSE [w EXCEPT !.calls = @ + 1, !.out = @ \o chunk]

\* One step of a renderer: a sink write whose error is checked, or a failure
\* that is not a sink write (an encoder error, a failed type assertion).
Wr(chunk) == [op |-> "write", chunk |-> chunk, err |-> OK]
Fail(e) == [op |-> "fail", chunk |-> <<>>, err |-> e]

Res(w, err) == [w |-> w, err |-> err]

\* The steps of a renderer run in order; each is followed by
\* `if err != nil { return err }`.
RECURSIVE Emit(_, _)
Emit(w, ops) ==
  IF ops = <<>> THEN Res(w, OK)
  ELSE LET o == Head(ops) IN
    IF o.op = "fail" THEN Res(w, o.err)
    ELSE LET w1 == SinkWrite(w, o.chunk) IN
      IF w1.failed THEN Res(w1, ErrWrite) ELSE Emit(w1, Tail(ops))

RECURSIVE Concat(_)
Concat(ss) == IF ss = <<>> THEN <<>> ELSE Head(ss) \o Concat(Tail(ss))

\* ------------------------------------------------------------------ items
\* An item is a value of the caller's record type: id is its position in the
\* supplied batch (its data), caps the interfaces its type implements, ovr how
\* its Format method answers, val what kind of value it holds.
\*   ovr: "never"  Format returns (nil, nil) for every format
\*        "always" Format returns bytes for every format
\*        "plain"  Format returns bytes for Plain only, (nil, nil) otherwise
\*        "err"    Format returns an error
\*   val: "text" ordinary text; "html" text with < > or &; "chan" a value no
\*        encoder can represent; "none" an item whose List() is empty
Item(id, caps, ovr, val) == [id |-> id, caps |-> caps, ovr |-> ovr, val |-> val]

Has(it, cap) == cap \in it.caps

\* Record types of the test suite, as the set of interfaces each implements.
TString == {}
TStringer == {"Stringer"}
TIndented == {"Indented"}
TBasicRow == {"Rower"}
THeadedRow == {"Rower", "Headed"}
TDelimited == {"Rower", "Headed", "Delimited"}
TRich == {"Rower", "Headed", "Titled", "Aligned", "Footered", "Numbered",
          "Captioned", "Grouped", "Paged", "Wrapped"}
TNoBorder == {"Rower", "Headed", "Bordered", "Footered", "Captioned", "Grouped", "Paged"}
TList == {"Lister", "Separator"}
TEnv == {"Mappable", "Exported", "Quoted"}
TFormatted == {"Formatter"}
TFormattedRow == {"Formatter", "Rower", "Headed"}

Types == {TString, TStringer, TIndented, TBasicRow, THeadedRow, TDelimited, TRich,
          TNoBorder, TList, TEnv, TFormatted, TFormattedRow}

\* What varies from one item of a type to the next.
Variants(t) ==
  IF "Formatter" \in t THEN {[ovr |-> o, val |-> "text"] : o \in {"never", "always", "plain", "err"}}
  ELSE IF t = TString THEN {[ovr |-> "never", val |-> v] : v \in {"text", "html", "chan"}}
  ELSE IF t = TList THEN {[ovr |-> "never", val |-> v] : v \in {"text", "none"}}
  ELSE {[ovr |-> "never", val |-> "text"]}

\* Batches of one concrete record type T.
TypedBatches(t) ==
  UNION {{[i \in 1..n |-> Item(i, t, vs[i].ovr, vs[i].val)] : vs \in [1..n -> Variants(t)]} : n \in 0..MaxItems}

\* Batches of record type `any` in which item two is a plain string.
MixedBatches ==
  {<<Item(1, t, "never", "text"), Item(2, TString, "never", "text")>> :
      t \in {THeadedRow, TRich, TList, TEnv, TFormatted}}

Batches == UNION {TypedBatches(t) : t \in Types} \cup MixedBatches

\* --- what the capability methods return
\* Formatter.Format(f): "nil" for (nil, nil), "bytes", or "err".
FormatResult(it, f) ==
  CASE it.ovr = "err" -> "err"
    [] it.ovr = "always" -> "bytes"
    [] it.ovr = "plain" -> IF f = Plain THEN "bytes" ELSE "nil"
    [] OTHER -> "nil"

\* The bytes Format returns for the item.
OverrideBytes(it) == <<Tok("custom", "", it.id, 0, "")>>

NumCols == 2
Cell(s, i, c) == [s |-> s, i |-> i, c |-> c]
Row(it) == [c \in 1..NumCols |-> Cell("row", it.id, c)]
\* An item of val "alt" answers the optional methods differently from the
\* other items of its type.
Alt(it) == it.val = "alt"
Header(it) == [c \in 1..NumCols |-> Cell(IF Alt(it) THEN "hdr2" ELSE "hdr", 0, c)]
Footer(it) == [c \in 1..NumCols |-> Cell(IF Alt(it) THEN "ftr2" ELSE "ftr", 0, c)]
Indent(it) == IF Alt(it) THEN "\t" ELSE "  "
Delimiter(it) == IF Alt(it) THEN "|" ELSE ";"
Sep(it) == IF Alt(it) THEN " / " ELSE ", "
Export(it) == ~Alt(it)
Quote(it) == ~Alt(it)
Title(it) == IF Alt(it) THEN "Staff" ELSE "People"
Caption(it) == IF Alt(it) THEN "none" ELSE "2 results"
NumberHeader(it) == IF Alt(it) THEN "No." ELSE "#"
PageSize(it) == IF Alt(it) THEN 2 ELSE 1
Group(it) == IF it.id = 1 \/ Alt(it) THEN "a" ELSE "b"
ListOf(it) == IF it.val = "none" THEN <<>> ELSE <<Cell("li", it.id, 1)>>
Pairs(it) == <<Cell("kv", it.id, 1)>>
\* Alignments(): column one left, column two right.
Alignments(it) == IF Alt(it) THEN <<"right", "left">> ELSE <<"left", "right">>

BorderRounded == "rounded"
BorderNone == "none"
Border(it) == IF Alt(it) THEN BorderRounded ELSE BorderNone

\* The number of visual lines the item's cells wrap to under WrapWidths().
WrapLines(it) == IF it.id % 2 = 0 THEN 2 ELSE 1

\* -------------------------------------------------------------- renderers
\* Every renderer takes the sink and the items and returns Res(sink, error).

First(items) == items[1]
AllHave(items, cap) == \A i \in 1..Len(items) : Has(items[i], cap)
Encodable(items) == \A i \in 1..Len(items) : items[i].val # "chan"

\* The text of one item encoded by encoding/json: as a whole document or as an
\* element nested in an array (the bytes differ only when an indent is set);
\* esc: HTML-sensitive characters are \u-escaped.
JSONValue(it, indent, esc, nested) ==
  Tok("json", IF nested /\ indent # "" THEN "elem" ELSE "doc", it.id,
      IF it.val = "html" /\ esc THEN 1 ELSE 0, indent)

JSONLit(v, indent) == Tok("lit", indent, 0, 0, v)

\* json.Marshal of a slice: null for a nil slice, otherwise [e1,e2,...].
JSONArray(items, isNil, indent, esc) ==
  IF Len(items) = 0 /\ isNil THEN <<Lit("null")>>
  ELSE <<JSONLit("[", indent)>>
       \o Concat([i \in 1..Len(items) |->
                    (IF i > 1 THEN <<JSONLit(",", indent)>> ELSE <<>>)
                    \o <<JSONValue(items[i], indent, esc, TRUE)>>])
       \o <<JSONLit("]", indent)>>

\* json.Encoder.Encode: marshal, append a newline, one Write.
JSONEncode(w, ok, doc) == IF ~ok THEN Res(w, ErrEncode) ELSE Emit(w, <<Wr(doc \o <<NL>>)>>)

\* writeJSON without the single-item case: every batch is encoded as an array.
writeJSON_AlwaysArray(w, items, isNil) ==
  JSONEncode(w, Encodable(items),
             JSONArray(items, isNil,
                       IF Len(items) > 0 /\ Has(First(items), "Indented") THEN Indent(First(items)) ELSE "",
                       TRUE))

\* writeJSON(w, items)
writeJSON(w, items, isNil) ==
  LET indent == IF Len(items) > 0 /\ Has(First(items), "Indented") THEN Indent(First(items)) ELSE ""
  IN IF Len(items) = 1
       THEN JSONEncode(w, Encodable(items), <<JSONValue(items[1], indent, TRUE, FALSE)>>)
       ELSE JSONEncode(w, Encodable(items), JSONArray(items, isNil, indent, TRUE))

writeJSONL(w, items) ==
  Emit(w, [i \in 1..Len(items) |->
             IF items[i].val = "chan" THEN Fail(ErrEncode)
             ELSE Wr(<<JSONValue(items[i], IF Has(items[i], "Indented") THEN Indent(items[i]) ELSE "",
                                 TRUE, FALSE), NL>>)])

\* yaml.v3: a nil or empty slice encodes as "[]"; a value of a kind the encoder
\* does not know makes it panic with a plain string, which its error handler
\* re-raises.  The document is flushed in one Write; Close writes nothing more.
YAMLValue(it, indent, nested) == Tok("yaml", IF nested THEN "elem" ELSE "doc", it.id, indent, "")

writeYAML(w, items) ==
  LET indent == IF Len(items) > 0 /\ Has(First(items), "Indented") THEN Len(Indent(First(items))) ELSE 0
      doc == IF Len(items) = 1 THEN <<YAMLValue(items[1], indent, FALSE)>>
             ELSE IF Len(items) = 0 THEN <<Lit("[]\n")>>
             ELSE [i \in 1..Len(items) |-> YAMLValue(items[i], indent, TRUE)]
  IN IF ~Encodable(items) THEN Res(w, Panic) ELSE Emit(w, <<Wr(doc)>>)

\* fmt.Stringer's String() when implemented, else fmt.Sprintf("%v", item).
PlainText(it) == Tok("plain", IF Has(it, "Stringer") THEN "String" ELSE "%v", it.id, 0, "")

writePlain(w, items) == Emit(w, [i \in 1..Len(items) |-> Wr(<<PlainText(items[i]), NL>>)])

\* One record of encoding/csv with the given delimiter.
CSVRecord(cells, comma) == <<Tok("csv", cells[1].s, cells[1].i, Len(cells), comma)>>

\* csv.Writer buffers the records; Flush hands them to the sink in one Write.
\* Row() of an item that does not implement Rower is a failed type assertion.
writeCSV(w, items) ==
  IF Len(items) = 0 THEN Res(w, OK)
  ELSE IF ~Has(First(items), "Rower") THEN Res(w, ErrMissingInterface)
  ELSE LET comma == IF Has(First(items), "Delimited") THEN Delimiter(First(items)) ELSE ","
           hdr == IF Has(First(items), "Headed") THEN CSVRecord(Header(First(items)), comma) ELSE <<>>
           rows == Concat([i \in 1..Len(items) |-> CSVRecord(Row(items[i]), comma)])
       IN IF ~AllHave(items, "Rower") THEN Res(w, Panic) ELSE Emit(w, <<Wr(hdr \o rows)>>)

\* strings.Join(cells, "\t") and a newline.
TSVLine(cells) == <<Tok("tsv", cells[1].s, cells[1].i, Len(cells), "")>>

writeTSV(w, items) ==
  IF Len(items) = 0 THEN Res(w, OK)
  ELSE IF ~Has(First(items), "Rower") THEN Res(w, ErrMissingInterface)
  ELSE Emit(w, (IF Has(First(items), "Headed") THEN <<Wr(TSVLine(Header(First(items))))>> ELSE <<>>)
               \o [i \in 1..Len(items) |->
                     IF Has(items[i], "Rower") THEN Wr(TSVLine(Row(items[i]))) ELSE Fail(Panic)])

\* strings.Join(all, sep) + "\n"
Join(all, sep) ==
  Concat([i \in 1..Len(all) |->
            (IF i > 1 THEN <<Lit(sep)>> ELSE <<>>) \o <<Tok("list", all[i].s, all[i].i, all[i].c, "")>>])

writeList(w, items) ==
  IF Len(items) = 0 THEN Res(w, OK)
  ELSE IF ~Has(First(items), "Lister") THEN Res(w, ErrMissingInterface)
  ELSE LET sep == IF Has(First(items), "Separator") THEN Sep(First(items)) ELSE "\n"
           all == Concat([i \in 1..Len(items) |-> IF Has(items[i], "Lister") THEN ListOf(items[i]) ELSE <<>>])
       IN IF ~AllHave(items, "Lister") THEN Res(w, Panic)
          ELSE IF Len(all) = 0 THEN Res(w, OK)
          ELSE Emit(w, <<Wr(Join(all, sep) \o <<NL>>)>>)

\* One line  <prefix><Key>=<value>  of ENV output.
ENVLine(kv, prefix, quoted) == <<Tok("env", IF quoted THEN "%q" ELSE "%s", kv.i, kv.c, prefix)>>

\* writeENV that asks every item for its own Quote().
writeENV_QuotePerItem(w, items) ==
  IF Len(items) = 0 THEN Res(w, OK)
  ELSE IF ~Has(First(items), "Mappable") THEN Res(w, ErrMissingInterface)
  ELSE Emit(w, Concat([i \in 1..Len(items) |->
                    (IF i > 1 THEN <<Wr(<<NL>>)>> ELSE <<>>)
                    \o (IF ~Has(items[i], "Mappable") THEN <<Fail(Panic)>>
                        ELSE [j \in 1..Len(Pairs(items[i])) |->
                                Wr(ENVLine(Pairs(items[i])[j],
                                           IF Has(First(items), "Exported") /\ Export(First(items))
                                             THEN "export " ELSE "",
                                           Has(items[i], "Quoted") /\ Quote(items[i])))])]))

writeENV(w, items) ==
  IF Len(items) = 0 THEN Res(w, OK)
  ELSE IF ~Has(First(items), "Mappable") THEN Res(w, ErrMissingInterface)
  ELSE LET export == IF Has(First(items), "Exported") THEN Export(First(items)) ELSE FALSE
           quoted == IF Has(First(items), "Quoted") THEN Quote(First(items)) ELSE FALSE
           prefix == IF export THEN "export " ELSE ""
       IN Emit(w, Concat([i \in 1..Len(items) |->
                    (IF i > 1 THEN <<Wr(<<NL>>)>> ELSE <<>>)
                    \o (IF ~Has(items[i], "Mappable") THEN <<Fail(Panic)>>
                        ELSE [j \in 1..Len(Pairs(items[i])) |-> Wr(ENVLine(Pairs(items[i])[j], prefix, quoted))])]))

\* Template.Execute writes each node of the parsed template: a run of literal
\* text as it stands, an action as the printed value of the item.
IsOpen(t, i) == i < Len(t) /\ t[i] = "{" /\ t[i + 1] = "{"
IsClose(t, i) == i < Len(t) /\ t[i] = "}" /\ t[i + 1] = "}"

RECURSIVE NodeEnd(_, _, _)
NodeEnd(t, i, action) ==
  IF i > Len(t) THEN i
  ELSE IF action THEN (IF IsClose(t, i) THEN i + 2 ELSE NodeEnd(t, i + 1, action))
  ELSE (IF IsOpen(t, i) THEN i ELSE NodeEnd(t, i + 1, action))

RECURSIVE ExecuteNodes(_, _, _)
ExecuteNodes(t, i, it) ==
  IF i > Len(t) THEN <<>>
  ELSE IF IsOpen(t, i)
    THEN <<Wr(<<Tok("tmpl", "action", it.id, i, "")>>)>> \o ExecuteNodes(t, NodeEnd(t, i + 2, TRUE), it)
    ELSE <<Wr(<<Tok("tmpl", "text", 0, i, "")>>)>> \o ExecuteNodes(t, NodeEnd(t, i + 1, FALSE), it)

writeGoTemplate(w, tmplStr, items) ==
  IF ~TemplateParses(tmplStr) THEN Res(w, ErrInvalidTemplate)
  ELSE Emit(w, Concat([i \in 1..Len(items) |-> ExecuteNodes(tmplStr, 1, items[i]) \o <<Wr(<<NL>>)>>]))

\* One framed line  | cell | cell |  of Markdown.
MarkdownLine(s, id) == <<Tok("md", s, id, 0, "")>>

\* writeMarkdown without the Headed check: an absent header renders empty.
writeMarkdown_NoHeadedCheck(w, items) ==
  IF Len(items) = 0 THEN Res(w, OK)
  ELSE IF ~Has(First(items), "Rower") THEN Res(w, ErrMissingInterface)
  ELSE IF ~AllHave(items, "Rower") THEN Res(w, Panic)
  ELSE Emit(w, <<Wr(MarkdownLine("hdr", 0)), Wr(MarkdownLine("sep", 0))>>
               \o [i \in 1..Len(items) |-> Wr(MarkdownLine("row", items[i].id))])

\* The rows are collected (Row() of every item) before the first write.
writeMarkdown(w, items) ==
  IF Len(items) = 0 THEN Res(w, OK)
  ELSE IF ~Has(First(items), "Rower") THEN Res(w, ErrMissingInterface)
  ELSE IF ~Has(First(items), "Headed") THEN Res(w, ErrMissingInterface)
  ELSE IF ~AllHave(items, "Rower") THEN Res(w, Panic)
  ELSE Emit(w, <<Wr(MarkdownLine("hdr", 0)), Wr(MarkdownLine("sep", 0))>>
               \o [i \in 1..Len(items) |-> Wr(MarkdownLine("row", items[i].id))])

alignStyle(aligns, col) ==
  IF col > Len(aligns) THEN ""
  ELSE IF aligns[col] = "right" THEN " style=\"text-align: right\""
  ELSE IF aligns[col] = "center" THEN " style=\"text-align: center\""
  ELSE ""

\* <th> or <td> lines of one row, one Write each.
HTMLCells(tag, cells, aligns) ==
  [c \in 1..Len(cells) |-> Wr(<<Tok(tag, cells[c].s, cells[c].i, c, alignStyle(aligns, c))>>)]

writeHTML(w, items) ==
  IF Len(items) = 0 THEN Res(w, OK)
  ELSE IF ~Has(First(items), "Rower") THEN Res(w, ErrMissingInterface)
  ELSE LET first == First(items)
           aligns == IF Has(first, "Aligned") THEN Alignments(first) ELSE <<>>
           caption == IF Has(first, "Titled") /\ Title(first) # ""
                        THEN <<Wr(<<Tok("caption", "title", 0, 0, Title(first))>>)>> ELSE <<>>
           thead == IF Has(first, "Headed")
                      THEN <<Wr(<<Lit("  <thead>\n")>>), Wr(<<Lit("    <tr>\n")>>)>>
                           \o HTMLCells("th", Header(first), aligns)
                           \o <<Wr(<<Lit("    </tr>\n")>>), Wr(<<Lit("  </thead>\n")>>)>>
                      ELSE <<>>
           body == Concat([i \in 1..Len(items) |->
                     IF ~Has(items[i], "Rower") THEN <<Fail(Panic)>>
                     ELSE <<Wr(<<Lit("    <tr>\n")>>)>> \o HTMLCells("td", Row(items[i]), aligns)
                          \o <<Wr(<<Lit("    </tr>\n")>>)>>])
           tfoot == IF Has(first, "Footered")
                      THEN <<Wr(<<Lit("  <tfoot>\n")>>), Wr(<<Lit("    <tr>\n")>>)>>
                           \o HTMLCells("td", Footer(first), aligns)
                           \o <<Wr(<<Lit("    </tr>\n")>>), Wr(<<Lit("  </tfoot>\n")>>)>>
                      ELSE <<>>
       IN Emit(w, <<Wr(<<Lit("<table>\n")>>)>> \o caption \o thead
                  \o <<Wr(<<Lit("  <tbody>\n")>>)>> \o body \o <<Wr(<<Lit("  </tbody>\n")>>)>>
                  \o tfoot \o <<Wr(<<Lit("</table>\n")>>)>>)

\* ------------------------------------------------------------------ table
\* A table row as the renderers see it: s its source ("hdr", "row", "ftr"),
\* i the item it comes from, num the text of its number cell ("" without
\* numbering), lines the number of visual lines its cells wrap to.
TableRow(s, i, num, lines) == [s |-> s, i |-> i, num |-> num, lines |-> lines]

\* fmt.Sprintf("%d", n)
Decimal(n) == <<"1", "2", "3", "4", "5", "6", "7", "8", "9">>[n]

\* writePlainSep: one line of dashes.
writePlainSep == Wr(<<Tok("sep", BorderNone, 0, 0, "-")>>)

\* writePlainRow: with wrap widths one Write per visual line, else one Write.
writePlainRow(row, wrapping) ==
  [l \in 1..(IF wrapping THEN row.lines ELSE 1) |-> Wr(<<Tok("plainrow", row.s, row.i, l, row.num)>>)]

\* PageBreak that also holds for the first data row.
PageBreak_AlsoFirst(i, pageSize, hasHeader) == pageSize > 0 /\ hasHeader /\ i % pageSize = 0

\* GroupBreak that holds before every data row but the first.
GroupBreak_EveryRow(i, groups) == Len(groups) > 0 /\ i > 0

\* The page break before data row i (0-based): separator, header, separator.
PageBreak(i, pageSize, hasHeader) == pageSize > 0 /\ hasHeader /\ i > 0 /\ i % pageSize = 0
GroupBreak(i, groups) == Len(groups) > 0 /\ i > 0 /\ groups[i + 1] # groups[i]

renderPlainTable(w, header, rows, footer, groups, wrapping, pageSize) ==
  Emit(w, (IF Len(header) > 0 THEN writePlainRow(header[1], wrapping) \o <<writePlainSep>> ELSE <<>>)
          \o Concat([r \in 1..Len(rows) |->
               (IF GroupBreak(r - 1, groups) THEN <<writePlainSep>> ELSE <<>>)
               \o (IF PageBreak(r - 1, pageSize, Len(header) > 0)
                     THEN <<writePlainSep>> \o writePlainRow(header[1], wrapping) \o <<writePlainSep>>
                     ELSE <<>>)
               \o writePlainRow(rows[r], wrapping)])
          \o (IF Len(footer) > 0 THEN <<writePlainSep>> \o writePlainRow(footer[1], wrapping) ELSE <<>>))

\* drawHLine: one border line; kind names its glyphs (left, fill, mid, right).
drawHLine(style, kind) == Wr(<<Tok("hline", style, 0, 0, kind)>>)

\* drawBorderedRow: with wrap widths one Write per visual line, else one Write.
drawBorderedRow(row, style, wrapping) ==
  [l \in 1..(IF wrapping THEN row.lines ELSE 1) |-> Wr(<<Tok("boxrow", row.s, row.i, l, row.num)>>)]

renderBorderedTable(w, title, header, rows, footer, style, groups, wrapping, pageSize) ==
  Emit(w, (IF title # ""
             THEN <<drawHLine(style, "topFull"), Wr(<<Tok("title", style, 0, 0, title)>>),
                    drawHLine(style, "transition")>>
             ELSE <<drawHLine(style, "top")>>)
          \o (IF Len(header) > 0
                THEN drawBorderedRow(header[1], style, wrapping) \o <<drawHLine(style, "mid")>> ELSE <<>>)
          \o Concat([r \in 1..Len(rows) |->
               (IF GroupBreak(r - 1, groups) THEN <<drawHLine(style, "mid")>> ELSE <<>>)
               \o (IF PageBreak(r - 1, pageSize, Len(header) > 0)
                     THEN <<drawHLine(style, "mid")>> \o drawBorderedRow(header[1], style, wrapping)
                          \o <<drawHLine(style, "mid")>>
                     ELSE <<>>)
               \o drawBorderedRow(rows[r], style, wrapping)])
          \o (IF Len(footer) > 0
                THEN <<drawHLine(style, "mid")>> \o drawBorderedRow(footer[1], style, wrapping) ELSE <<>>)
          \o <<drawHLine(style, "bottom")>>)

\* The end of writeTable: the render error is returned, else the caption line
\* is written when the caption is not empty.
writeCaption(r, caption) ==
  IF r.err # OK THEN r
  ELSE IF caption # "" THEN Emit(r.w, <<Wr(<<Tok("caption", "", 0, 0, caption)>>)>>)
  ELSE r

\* header and footer are sequences of at most one TableRow (empty: none).
writeTable(w, items) ==
  IF Len(items) = 0 THEN Res(w, OK)
  ELSE IF ~Has(First(items), "Rower") THEN Res(w, ErrMissingInterface)
  ELSE IF ~AllHave(items, "Rower") THEN Res(w, Panic)
  ELSE LET first == First(items)
           title == IF Has(first, "Titled") THEN Title(first) ELSE ""
           border == IF Has(first, "Bordered") THEN Border(first) ELSE BorderRounded
           numbered == Has(first, "Numbered")
           caption == IF Has(first, "Captioned") THEN Caption(first) ELSE ""
           groups == IF Has(first, "Grouped")
                       THEN [i \in 1..Len(items) |-> IF Has(items[i], "Grouped") THEN Group(items[i]) ELSE ""]
                       ELSE <<>>
           wrapping == Has(first, "Wrapped")
           pageSize == IF Has(first, "Paged") THEN PageSize(first) ELSE 0
           header == IF Has(first, "Headed")
                       THEN <<TableRow("hdr", 0, IF numbered THEN NumberHeader(first) ELSE "", 1)>> ELSE <<>>
           footer == IF Has(first, "Footered") THEN <<TableRow("ftr", 0, "", 1)>> ELSE <<>>
           rows == [i \in 1..Len(items) |->
                      TableRow("row", items[i].id, IF numbered THEN Decimal(i) ELSE "", WrapLines(items[i]))]
       IN IF Has(first, "Grouped") /\ ~AllHave(items, "Grouped") THEN Res(w, Panic)
          ELSE IF border = BorderNone
            THEN writeCaption(renderPlainTable(w, header, rows, footer, groups, wrapping, pageSize),
                              caption)
            ELSE writeCaption(renderBorderedTable(w, title, header, rows, footer, border, groups,
                                                  wrapping, pageSize), caption)

\* ------------------------------------------------------------- dispatcher
\* The format switch of Write and of writeFormatted (the two are the same).
Dispatch(w, f, items, isNil) ==
  CASE f = JSON -> writeJSON(w, items, isNil)
    [] f = YAML -> writeYAML(w, items)
    [] f = CSV -> writeCSV(w, items)
    [] f = Table -> writeTable(w, items)
    [] f = Markdown -> writeMarkdown(w, items)
    [] f = List -> writeList(w, items)
    [] f = ENV -> writeENV(w, items)
    [] f = Plain -> writePlain(w, items)
    [] f = TSV -> writeTSV(w, items)
    [] f = JSONL -> writeJSONL(w, items)
    [] f = HTML -> writeHTML(w, items)
    [] OTHER -> IF HasPrefix(f, goTemplatePrefix)
                  THEN writeGoTemplate(w, CutPrefix(f, goTemplatePrefix), items)
                  ELSE Res(w, ErrUnsupportedFormat)

\* Result of Write: the sink, the error, and fc, the ids of the items whose
\* Format method was invoked, in invocation order.
WRes(r, fc) == [w |-> r.w, err |-> r.err, fc |-> fc]

RECURSIVE FormattedLoop(_, _, _, _, _, _)

\* FormattedLoop with `continue` in place of `return err` after a failed Format.
FormattedLoop_SkipsError(w, f, items, i, fallback, fc) ==
  IF i > Len(items)
    THEN IF Len(fallback) = 0 THEN WRes(Res(w, OK), fc)
         ELSE WRes(Dispatch(w, f, fallback, FALSE), fc)
  ELSE IF ~Has(items[i], "Formatter") THEN WRes(Res(w, Panic), fc)
  ELSE LET data == FormatResult(items[i], f)
           fc1 == Append(fc, items[i].id)
       IN IF data = "err" THEN FormattedLoop(w, f, items, i + 1, fallback, fc1)
          ELSE IF data = "bytes"
            THEN LET w1 == SinkWrite(w, OverrideBytes(items[i]))
                 IN IF w1.failed THEN WRes(Res(w1, ErrWrite), fc1)
                    ELSE FormattedLoop(w1, f, items, i + 1, fallback, fc1)
          ELSE FormattedLoop(w, f, items, i + 1, Append(fallback, items[i]), fc1)

\* FormattedLoop that puts each fallback item in front of the earlier ones.
FormattedLoop_Prepends(w, f, items, i, fallback, fc) ==
  IF i > Len(items)
    THEN IF Len(fallback) = 0 THEN WRes(Res(w, OK), fc)
         ELSE WRes(Dispatch(w, f, fallback, FALSE), fc)
  ELSE IF ~Has(items[i], "Formatter") THEN WRes(Res(w, Panic), fc)
  ELSE LET data == FormatResult(items[i], f)
           fc1 == Append(fc, items[i].id)
       IN IF data = "err" THEN WRes(Res(w, ErrFormat), fc1)
          ELSE IF data = "bytes"
            THEN LET w1 == SinkWrite(w, OverrideBytes(items[i]))
                 IN IF w1.failed THEN WRes(Res(w1, ErrWrite), fc1)
                    ELSE FormattedLoop(w1, f, items, i + 1, fallback, fc1)
          ELSE FormattedLoop(w, f, items, i + 1, <<items[i]>> \o fallback, fc1)

\* The loop of writeFormatted from item i on, then the fallback dispatch.
FormattedLoop(w, f, items, i, fallback, fc) ==
  IF i > Len(items)
    THEN IF Len(fallback) = 0 THEN WRes(Res(w, OK), fc)
         ELSE WRes(Dispatch(w, f, fallback, FALSE), fc)
  ELSE IF ~Has(items[i], "Formatter") THEN WRes(Res(w, Panic), fc)
  ELSE LET data == FormatResult(items[i], f)
           fc1 == Append(fc, items[i].id)
       IN IF data = "err" THEN WRes(Res(w, ErrFormat), fc1)
          ELSE IF data = "bytes"
            THEN LET w1 == SinkWrite(w, OverrideBytes(items[i]))
                 IN IF w1.failed THEN WRes(Res(w1, ErrWrite), fc1)
                    ELSE FormattedLoop(w1, f, items, i + 1, fallback, fc1)
          ELSE FormattedLoop(w, f, items, i + 1, Append(fallback, items[i]), fc1)

writeFormatted(w, f, items) == FormattedLoop(w, f, items, 1, <<>>, <<>>)

\* Write(w, f, items...); isNil: the variadic slice is nil (no arguments).
Write(w, f, items, isNil) ==
  IF Len(items) > 0 /\ Has(items[1], "Formatter")
    THEN writeFormatted(w, f, items)
    ELSE WRes(Dispatch(w, f, items, isNil), <<>>)

\* -------------------------------------------------------- streaming layer
\* The locals of a stream function: first (streamJSON, streamCSV, streamTSV),
\* items (streamCollect, streamGoTemplate), err (encErr / streamErr).
NewLocals == [first |-> TRUE, items |-> <<>>, err |-> OK]

\* Result of one invocation of the per-item callback: the locals, the sink,
\* the callback's return value (cont) and the Format calls it made.
Yielded(loc, w, cont, fc) == [loc |-> loc, w |-> w, cont |-> cont, fc |-> fc]
Stop(loc, w, err, fc) == Yielded([loc EXCEPT !.err = err], w, FALSE, fc)

\* StreamOf that collects the items of every tag it does not know.
StreamOf_CollectsUnknown(f) ==
  CASE f = JSON -> "streamJSON"
    [] f = CSV -> "streamCSV"
    [] f = TSV -> "streamTSV"
    [] f = JSONL -> "streamJSONL"
    [] f = Plain -> "streamPlain"
    [] OTHER -> IF HasPrefix(f, goTemplatePrefix) THEN "streamGoTemplate" ELSE "streamCollect"

\* The stream function WriteIter hands the sequence to ("" : none, the tag is
\* rejected).
StreamOf(f) ==
  CASE f = JSON -> "streamJSON"
    [] f = YAML -> "streamCollect"
    [] f \in {Table, Markdown, HTML} -> "streamCollect"
    [] f = CSV -> "streamCSV"
    [] f = TSV -> "streamTSV"
    [] f = JSONL -> "streamJSONL"
    [] f = Plain -> "streamPlain"
    [] f = List -> "streamCollect"
    [] f = ENV -> "streamCollect"
    [] OTHER -> IF HasPrefix(f, goTemplatePrefix) THEN "streamGoTemplate" ELSE ""

\* The callback after it rendered the first item (r: what the batch renderer
\* returned) and after it rendered a later one.
FirstYield(loc, r) ==
  IF r.err # OK THEN Stop([loc EXCEPT !.first = FALSE], r.w, r.err, r.fc)
  ELSE Yielded([loc EXCEPT !.first = FALSE], r.w, TRUE, r.fc)

NextYield(loc, r) == IF r.err # OK THEN Stop(loc, r.w, r.err, <<>>) ELSE Yielded(loc, r.w, TRUE, <<>>)

\* callback of streamCollect and of streamGoTemplate
collectYield(loc, w, item) == Yielded([loc EXCEPT !.items = Append(@, item)], w, TRUE, <<>>)

\* The second half of streamJSON's callback: first = false, then a new
\* encoder (SetEscapeHTML(false), the item's indent) and enc.Encode(item).
encodeItem(loc, w, item) ==
  FirstYield(loc, WRes(JSONEncode(w, item.val # "chan",
                                  <<JSONValue(item, IF Has(item, "Indented") THEN Indent(item) ELSE "",
                                              FALSE, FALSE)>>), <<>>))

\* The first half on a later item: the "," write and its error check.
writeComma(loc, w1, item) == IF w1.failed THEN Stop(loc, w1, ErrWrite, <<>>) ELSE encodeItem(loc, w1, item)

\* streamJSONYield that does not check the error of the "," write.
streamJSONYield_IgnoresCommaError(loc, w, item) ==
  encodeItem(loc, IF ~loc.first THEN SinkWrite(w, <<Lit(",")>>) ELSE w, item)

\* callback of streamJSON
streamJSONYield(loc, w, item) ==
  IF ~loc.first
    THEN writeComma(loc, SinkWrite(w, <<Lit(",")>>), item)
    ELSE encodeItem(loc, w, item)

\* writeCSVRow(w, row): a fresh csv.Writer with the default comma, one record,
\* Flush.
writeCSVRow(w, row) == Emit(w, <<Wr(CSVRecord(row, ","))>>)

\* callback of streamCSV
streamCSVYield(loc, w, item) ==
  IF loc.first
    THEN IF ~Has(item, "Rower") THEN Stop([loc EXCEPT !.first = FALSE], w, ErrMissingInterface, <<>>)
         ELSE FirstYield(loc, Write(w, CSV, <<item>>, FALSE))
    ELSE IF ~Has(item, "Rower") THEN Stop(loc, w, Panic, <<>>)
         ELSE NextYield(loc, writeCSVRow(w, Row(item)))

\* callback of streamTSV
streamTSVYield(loc, w, item) ==
  IF loc.first
    THEN IF ~Has(item, "Rower") THEN Stop([loc EXCEPT !.first = FALSE], w, ErrMissingInterface, <<>>)
         ELSE FirstYield(loc, Write(w, TSV, <<item>>, FALSE))
    ELSE IF ~Has(item, "Rower") THEN Stop(loc, w, Panic, <<>>)
         ELSE NextYield(loc, Emit(w, <<Wr(TSVLine(Row(item)))>>))

\* callback of streamJSONL
streamJSONLYield(loc, w, item) == NextYield(loc, writeJSONL(w, <<item>>))

\* streamPlainYield that keeps the item for later instead of writing it.
streamPlainYield_Collects(loc, w, item) ==
  Yielded([loc EXCEPT !.items = Append(@, item)], w, TRUE, <<>>)

\* callback of streamPlain
streamPlainYield(loc, w, item) == NextYield(loc, Emit(w, <<Wr(<<PlainText(item), NL>>)>>))

\* The callback the stream function passes to seq.
Callback(stream, loc, w, item) ==
  CASE stream = "streamJSON" -> streamJSONYield(loc, w, item)
    [] stream = "streamCSV" -> streamCSVYield(loc, w, item)
    [] stream = "streamTSV" -> streamTSVYield(loc, w, item)
    [] stream = "streamJSONL" -> streamJSONLYield(loc, w, item)
    [] stream = "streamPlain" -> streamPlainYield(loc, w, item)
    [] OTHER -> collectYield(loc, w, item)

\* AfterSeq whose streamJSON closes the array whether or not the callback
\* stored an error.
AfterSeq_ClosesAfterError(stream, loc, w, f) ==
  CASE stream = "streamJSON" -> WRes(Emit(w, <<Wr(<<Lit("]"), NL>>)>>), <<>>)
    [] stream = "streamCollect" ->
         IF Len(loc.items) = 0 THEN WRes(Res(w, OK), <<>>) ELSE Write(w, f, loc.items, FALSE)
    [] stream = "streamGoTemplate" ->
         IF Len(loc.items) = 0 THEN WRes(Res(w, OK), <<>>)
         ELSE WRes(writeGoTemplate(w, CutPrefix(f, goTemplatePrefix), loc.items), <<>>)
    [] OTHER -> WRes(Res(w, loc.err), <<>>)

\* What the stream function does once seq has returned.
AfterSeq(stream, loc, w, f) ==
  CASE stream = "streamJSON" ->
         IF loc.err # OK THEN WRes(Res(w, loc.err), <<>>)
         ELSE WRes(Emit(w, <<Wr(<<Lit("]"), NL>>)>>), <<>>)
    [] stream = "streamCollect" ->
         IF Len(loc.items) = 0 THEN WRes(Res(w, OK), <<>>) ELSE Write(w, f, loc.items, FALSE)
    [] stream = "streamGoTemplate" ->
         IF Len(loc.items) = 0 THEN WRes(Res(w, OK), <<>>)
         ELSE WRes(writeGoTemplate(w, CutPrefix(f, goTemplatePrefix), loc.items), <<>>)
    [] OTHER -> WRes(Res(w, loc.err), <<>>)

\* ------------------------------------------------------------ table text
\* The layout of Table and Markdown output, character by character.  A text
\* is a sequence of characters; "W" stands for a full-width character (two
\* display columns), "^" for a combining mark (none), every other character
\* takes one column.

\* runewidth.RuneWidth
RuneWidth(c) == IF c = "W" THEN 2 ELSE IF c = "^" THEN 0 ELSE 1

\* runewidth.StringWidth
RECURSIVE StringWidth(_)
StringWidth(s) == IF s = <<>> THEN 0 ELSE RuneWidth(Head(s)) + StringWidth(Tail(s))

\* The loop of runewidth.Truncate: the number of leading characters taken
\* before the first one that would make the width exceed w.
RECURSIVE Fit(_, _)
Fit(s, w) ==
  IF s = <<>> THEN 0
  ELSE IF RuneWidth(Head(s)) > w THEN 0
  ELSE 1 + Fit(Tail(s), w - RuneWidth(Head(s)))

\* runewidth.Truncate(s, w, tail)
Truncate(s, w, tail) ==
  IF StringWidth(s) <= w THEN s ELSE SubSeq(s, 1, Fit(s, w - StringWidth(tail))) \o tail

\* strings.Repeat(c, n)
Repeat(c, n) == [k \in 1..n |-> c]

Ellipsis == <<".", ".", ".">>
AlignLeft == "left"
AlignRight == "right"
AlignCenter == "center"

\* The padding of alignCell when pad > 0.
Padded(s, pad, align) ==
  CASE align = AlignRight -> Repeat(" ", pad) \o s
    [] align = AlignCenter -> Repeat(" ", pad \div 2) \o s \o Repeat(" ", pad - pad \div 2)
    [] OTHER -> s \o Repeat(" ", pad)

\* alignCell(s, width, align)
alignCell(s, width, align) ==
  IF width - StringWidth(s) <= 0 THEN s ELSE Padded(s, width - StringWidth(s), align)

\* The truncation step of formatTableCell.
Cut(s, width) ==
  IF width > 0 /\ StringWidth(s) > width
    THEN IF width <= 3 THEN Truncate(s, width, <<>>) ELSE Truncate(s, width, Ellipsis)
    ELSE s

\* formatTableCell that appends the ellipsis at every width.
formatTableCell_EllipsisAlways(s, width, align) ==
  alignCell(IF width > 0 /\ StringWidth(s) > width THEN Truncate(s, width, Ellipsis) ELSE s, width, align)

\* formatTableCell(s, width, align)
formatTableCell(s, width, align) == alignCell(Cut(s, width), width, align)

\* The safety branch of wrapCell's loop: a line of no width is replaced by
\* the first character of the remaining text.
Advance(s, line) == IF StringWidth(line) = 0 /\ Len(s) > 0 THEN <<s[1]>> ELSE line

\* wrapLine without the safety branch.
wrapLine_NoSafety(s, width) == Truncate(s, width, <<>>)

\* One iteration of wrapCell's loop: the line taken from the remaining text s.
wrapLine(s, width) == Advance(s, Truncate(s, width, <<>>))

\* for len(s) > 0 { ...; lines = append(lines, line); s = s[len(line):] }
RECURSIVE wrapLoop(_, _)
wrapLoop(s, width) ==
  IF Len(s) = 0 THEN <<>>
  ELSE <<wrapLine(s, width)>> \o wrapLoop(SubSeq(s, Len(wrapLine(s, width)) + 1, Len(s)), width)

\* wrapCell(s, width)
wrapCell(s, width) == IF width <= 0 \/ StringWidth(s) <= width THEN <<s>> ELSE wrapLoop(s, width)

\* --- the table as writeTable lays it out
\* colCount(header, rows, footer)
Max(a, b) == IF a >= b THEN a ELSE b
RECURSIVE MaxOf(_)
MaxOf(ns) == IF ns = <<>> THEN 0 ELSE Max(Head(ns), MaxOf(Tail(ns)))
colCount(header, rows, footer) ==
  Max(Len(header), Max(MaxOf([r \in 1..Len(rows) |-> Len(rows[r])]), Len(footer)))

\* cells[i], or the empty string past the end of the row
CellAt(cells, i) == IF i <= Len(cells) THEN cells[i] ELSE <<>>

\* computeWidths(numCols, header, rows, footer)
computeWidths(numCols, header, rows, footer) ==
  [i \in 1..numCols |->
     Max(StringWidth(CellAt(header, i)),
         Max(MaxOf([r \in 1..Len(rows) |-> StringWidth(CellAt(rows[r], i))]),
             StringWidth(CellAt(footer, i))))]

\* for i, max := range tr.MaxWidths() { if i < numCols && max > 0 && widths[i] > max { widths[i] = max } }
clampWidths(widths, truncated, maxWidths) ==
  [i \in 1..Len(widths) |->
     IF truncated /\ i <= Len(maxWidths) /\ maxWidths[i] > 0 /\ widths[i] > maxWidths[i]
       THEN maxWidths[i] ELSE widths[i]]

\* extendAligns / extendStyles: cut or zero-padded to numCols entries
\* (AlignLeft is the zero Alignment, "" stands for a nil style function).
extendAligns(aligns, numCols) == [i \in 1..numCols |-> IF i <= Len(aligns) THEN aligns[i] ELSE AlignLeft]
extendStyles(styles, numCols) == [i \in 1..numCols |-> IF i <= Len(styles) THEN styles[i] ELSE ""]

\* What writeTable hands to the render functions.  t holds what item zero's
\* optional methods returned, the rows of all items and their group keys.
Numbered(t) ==
  [t EXCEPT !.header = IF Len(t.header) > 0 THEN <<t.numHdr>> \o t.header ELSE t.header,
            !.rows = [r \in 1..Len(t.rows) |-> <<<<Decimal(r)>>>> \o t.rows[r]],
            !.footer = IF Len(t.footer) > 0 THEN <<<<>>>> \o t.footer ELSE t.footer,
            !.aligns = <<AlignRight>> \o t.aligns,
            !.styles = <<"">> \o t.styles,
            !.wrapWidths = IF Len(t.wrapWidths) > 0 THEN <<0>> \o t.wrapWidths ELSE t.wrapWidths]

\* numCols, widths, aligns and styles as computed after the numbering transform.
Measured(t, numCols) ==
  [t EXCEPT !.widths = clampWidths(computeWidths(numCols, t.header, t.rows, t.footer),
                                   t.truncated, t.maxWidths),
            !.aligns = extendAligns(t.aligns, numCols),
            !.styles = extendStyles(t.styles, numCols)]

Prepared(t) == Measured(t, colCount(t.header, t.rows, t.footer))

\* wrapRow(cells, widths, wrapWidths)
wrapRow(cells, widths, wrapWidths) ==
  [i \in 1..Len(widths) |->
     IF i <= Len(wrapWidths) /\ wrapWidths[i] > 0 /\ wrapWidths[i] < widths[i]
       THEN wrapCell(CellAt(cells, i), wrapWidths[i])
       ELSE <<CellAt(cells, i)>>]

\* maxLines(wrapped)
maxLines(wrapped) == Max(1, MaxOf([i \in 1..Len(wrapped) |-> Len(wrapped[i])]))

\* The cell texts of each visual line of a row: the wrapped lines when wrap
\* widths are configured, the cells themselves otherwise.
LinesOf(wrapped, widths) ==
  [l \in 1..maxLines(wrapped) |-> [i \in 1..Len(widths) |-> CellAt(wrapped[i], l)]]
VisualLines(cells, t) ==
  IF Len(t.wrapWidths) > 0
    THEN LinesOf(wrapRow(cells, t.widths, t.wrapWidths), t.widths)
    ELSE <<[i \in 1..Len(t.widths) |-> CellAt(cells, i)]>>

\* A style function, standing for any function of the padded text: it puts
\* its mark in front.
Styled(formatted, style) == IF style # "" THEN <<style>> \o formatted ELSE formatted

\* formatTableCell, then the column's style function.
Part(cell, t, i) == Styled(formatTableCell(cell, t.widths[i], t.aligns[i]), t.styles[i])

\* strings.Join(parts, sep)
JoinText(parts, sep) ==
  Concat([i \in 1..Len(parts) |-> (IF i > 1 THEN sep ELSE <<>>) \o parts[i]])

\* strings.TrimRight(s, " ")
RECURSIVE TrimRight(_)
TrimRight(s) == IF s # <<>> /\ s[Len(s)] = " " THEN TrimRight(SubSeq(s, 1, Len(s) - 1)) ELSE s

\* One line of output: k names the statement that wrote it, r the data row
\* (0-based) it belongs to or precedes, -1 for none.
Line(k, r, text) == [k |-> k, r |-> r, text |-> text]

\* writePlainSep(w, widths)
plainSep(k, r, t) == <<Line(k, r, JoinText([i \in 1..Len(t.widths) |-> Repeat("-", t.widths[i])], <<" ", " ">>))>>

\* writePlainRow(w, cells, widths, aligns, styles, wrapWidths)
plainLines(k, r, visual, t) ==
  [l \in 1..Len(visual) |->
     Line(k, r, TrimRight(JoinText([i \in 1..Len(t.widths) |-> Part(visual[l][i], t, i)], <<" ", " ">>)))]
plainRow(k, r, cells, t) == plainLines(k, r, VisualLines(cells, t), t)

\* renderPlainTable
plainTable(t) ==
  (IF Len(t.header) > 0 THEN plainRow("header", -1, t.header, t) \o plainSep("headerSep", -1, t) ELSE <<>>)
  \o Concat([r \in 1..Len(t.rows) |->
       (IF GroupBreak(r - 1, t.groups) THEN plainSep("groupSep", r - 1, t) ELSE <<>>)
       \o (IF PageBreak(r - 1, t.pageSize, Len(t.header) > 0)
             THEN plainSep("pageSep", r - 1, t) \o plainRow("pageHeader", r - 1, t.header, t)
                  \o plainSep("pageHeaderSep", r - 1, t)
             ELSE <<>>)
       \o plainRow("row", r - 1, t.rows[r], t)])
  \o (IF Len(t.footer) > 0 THEN plainSep("footerSep", -1, t) \o plainRow("footer", -1, t.footer, t) ELSE <<>>)

\* borderSets: the glyphs of BorderASCII, and names for those of the other
\* styles (each one display column wide).
BorderASCII == "ascii"
borderSets(style) ==
  IF style = BorderASCII
    THEN [topLeft |-> "+", topRight |-> "+", bottomLeft |-> "+", bottomRight |-> "+",
          horizontal |-> "-", vertical |-> "|",
          topTee |-> "+", bottomTee |-> "+", leftTee |-> "+", rightTee |-> "+", cross |-> "+"]
    ELSE [topLeft |-> "topLeft", topRight |-> "topRight", bottomLeft |-> "bottomLeft",
          bottomRight |-> "bottomRight", horizontal |-> "horizontal", vertical |-> "vertical",
          topTee |-> "topTee", bottomTee |-> "bottomTee", leftTee |-> "leftTee",
          rightTee |-> "rightTee", cross |-> "cross"]

\* tableInnerWidth(widths)
RECURSIVE Sum(_)
Sum(ns) == IF ns = <<>> THEN 0 ELSE Head(ns) + Sum(Tail(ns))
tableInnerWidth(widths) ==
  Sum([i \in 1..Len(widths) |-> widths[i] + 2]) + (IF Len(widths) > 1 THEN Len(widths) - 1 ELSE 0)

\* drawHLine(w, widths, left, fill, mid, right)
hLine(k, r, widths, left, fill, mid, right) ==
  <<Line(k, r, <<left>>
               \o Concat([i \in 1..Len(widths) |->
                            Repeat(fill, widths[i] + 2) \o (IF i < Len(widths) THEN <<mid>> ELSE <<>>)])
               \o <<right>>)>>

midLine(k, r, t, bc) == hLine(k, r, t.widths, bc.leftTee, bc.horizontal, bc.cross, bc.rightTee)

\* drawBorderedRow(w, cells, widths, aligns, vert, styles, wrapWidths)
borderedLines(k, r, visual, t, vert) ==
  [l \in 1..Len(visual) |->
     Line(k, r, <<vert>>
                \o Concat([i \in 1..Len(t.widths) |->
                             <<" ">> \o Part(visual[l][i], t, i) \o <<" ">>
                             \o (IF i < Len(t.widths) THEN <<vert>> ELSE <<>>)])
                \o <<vert>>)]
borderedRow(k, r, cells, t, vert) == borderedLines(k, r, VisualLines(cells, t), t, vert)

\* The title line: fmt.Fprintf(w, "%s %s %s\n", bc.vertical, padded, bc.vertical)
titleLine(t, bc) ==
  <<Line("title", -1, <<bc.vertical, " ">>
                      \o alignCell(t.title, tableInnerWidth(t.widths) - 2, AlignCenter)
                      \o <<" ", bc.vertical>>)>>

\* renderBorderedTable
borderedTable(t, bc) ==
  (IF t.title # <<>>
     THEN hLine("top", -1, t.widths, bc.topLeft, bc.horizontal, bc.horizontal, bc.topRight)
          \o titleLine(t, bc)
          \o hLine("transition", -1, t.widths, bc.leftTee, bc.horizontal, bc.topTee, bc.rightTee)
     ELSE hLine("top", -1, t.widths, bc.topLeft, bc.horizontal, bc.topTee, bc.topRight))
  \o (IF Len(t.header) > 0
        THEN borderedRow("header", -1, t.header, t, bc.vertical) \o midLine("headerSep", -1, t, bc)
        ELSE <<>>)
  \o Concat([r \in 1..Len(t.rows) |->
       (IF GroupBreak(r - 1, t.groups) THEN midLine("groupSep", r - 1, t, bc) ELSE <<>>)
       \o (IF PageBreak(r - 1, t.pageSize, Len(t.header) > 0)
             THEN midLine("pageSep", r - 1, t, bc)
                  \o borderedRow("pageHeader", r - 1, t.header, t, bc.vertical)
                  \o midLine("pageHeaderSep", r - 1, t, bc)
             ELSE <<>>)
       \o borderedRow("row", r - 1, t.rows[r], t, bc.vertical)])
  \o (IF Len(t.footer) > 0
        THEN midLine("footerSep", -1, t, bc) \o borderedRow("footer", -1, t.footer, t, bc.vertical)
        ELSE <<>>)
  \o hLine("bottom", -1, t.widths, bc.bottomLeft, bc.horizontal, bc.bottomTee, bc.bottomRight)

\* The render call of writeTable and the caption line after it.
RenderedTable(t) ==
  (IF t.border = BorderNone THEN plainTable(t) ELSE borderedTable(t, borderSets(t.border)))
  \o (IF t.caption # <<>> THEN <<Line("caption", -1, t.caption)>> ELSE <<>>)

\* writeTable from the numbering transform on, for at least one item: the
\* lines written to a sink that accepts every write.
tableArgs(t) == Prepared(IF t.numbered THEN Numbered(t) ELSE t)
tableLines(t) == RenderedTable(tableArgs(t))

\* --- Markdown text
\* The column widths of writeMarkdown: the widest of the header cell and the
\* row cells of the column, and at least 3.
markdownWidths(header, rows) ==
  [i \in 1..Len(header) |->
     Max(3, Max(StringWidth(header[i]), MaxOf([r \in 1..Len(rows) |-> StringWidth(CellAt(rows[r], i))])))]

\* markdownSep that draws the markers of a Center column in a Right column.
markdownSep_CenterForRight(width, align) ==
  CASE align = AlignRight -> <<":">> \o Repeat("-", width - 2) \o <<":">>
    [] align = AlignCenter -> <<":">> \o Repeat("-", width - 2) \o <<":">>
    [] OTHER -> Repeat("-", width)

\* The separator cell of one column.
markdownSep(width, align) ==
  CASE align = AlignRight -> Repeat("-", width - 1) \o <<":">>
    [] align = AlignCenter -> <<":">> \o Repeat("-", width - 2) \o <<":">>
    [] OTHER -> Repeat("-", width)

\* fmt.Fprintf(w, "| %s |\n", strings.Join(cells, " | "))
markdownFramed(k, r, cells) == Line(k, r, <<"|", " ">> \o JoinText(cells, <<" ", "|", " ">>) \o <<" ", "|">>)

\* writeMarkdownRow(w, cells, widths, aligns)
writeMarkdownRow(k, r, cells, widths, aligns) ==
  markdownFramed(k, r, [i \in 1..Len(widths) |-> alignCell(CellAt(cells, i), widths[i], aligns[i])])

\* The three parts of writeMarkdown's output for given widths and alignments.
markdownRows(m, widths, aligns) ==
  <<writeMarkdownRow("header", -1, m.header, widths, aligns),
    markdownFramed("sep", -1, [i \in 1..Len(widths) |-> markdownSep(widths[i], aligns[i])])>>
  \o [r \in 1..Len(m.rows) |-> writeMarkdownRow("row", r - 1, m.rows[r], widths, aligns)]

\* writeMarkdown from the header on, for at least one item whose type has
\* Rower and Headed: the lines written to a sink that accepts every write.
markdownLines(m) ==
  markdownRows(m, markdownWidths(m.header, m.rows), extendAligns(m.aligns, Len(m.header)))

\* The table of no decorations and no rows.
NoTable ==
  [header |-> <<>>, rows |-> <<>>, footer |-> <<>>, title |-> <<>>, border |-> BorderRounded,
   aligns |-> <<>>, numbered |-> FALSE, numHdr |-> <<>>, caption |-> <<>>, styles |-> <<>>,
   groups |-> <<>>, wrapWidths |-> <<>>, pageSize |-> 0, truncated |-> FALSE, maxWidths |-> <<>>,
   widths |-> <<>>]

\* --- what writeTable and writeMarkdown gather from the items
\* What an item's optional methods return, in one of two ways.
Answers(v) ==
  IF v = "alt"
    THEN [header |-> <<<<"h", "h">>, <<"h">>>>, title |-> <<"t", "t">>, border |-> BorderASCII,
          aligns |-> <<AlignRight, AlignCenter>>, footer |-> <<<<"f">>>>, numHdr |-> <<"N">>,
          caption |-> <<"c", "c">>, styles |-> <<"*">>, group |-> "y", wrapWidths |-> <<0, 1>>,
          pageSize |-> 1, maxWidths |-> <<0, 2>>]
    ELSE [header |-> <<<<"h">>, <<"h">>>>, title |-> <<"t">>, border |-> BorderRounded,
          aligns |-> <<AlignLeft, AlignRight>>, footer |-> <<<<"f">>, <<"f">>>>, numHdr |-> <<"#">>,
          caption |-> <<"c">>, styles |-> <<"", "*">>, group |-> "x", wrapWidths |-> <<>>,
          pageSize |-> 2, maxWidths |-> <<>>]

\* An item at the level of its texts: its Row() and the way it answers.
TextItem(row, v) == [row |-> row, v |-> v]

\* writeTable up to the numbering transform, for at least one item of a type
\* with Rower that implements the interfaces T: the rows of all items, the
\* decorations of item zero, the group keys of all items.
gatherTable(items, T) ==
  [NoTable EXCEPT
     !.rows = [i \in 1..Len(items) |-> items[i].row],
     !.header = IF "Headed" \in T THEN Answers(items[1].v).header ELSE <<>>,
     !.title = IF "Titled" \in T THEN Answers(items[1].v).title ELSE <<>>,
     !.border = IF "Bordered" \in T THEN Answers(items[1].v).border ELSE BorderRounded,
     !.aligns = IF "Aligned" \in T THEN Answers(items[1].v).aligns ELSE <<>>,
     !.footer = IF "Footered" \in T THEN Answers(items[1].v).footer ELSE <<>>,
     !.numbered = "Numbered" \in T,
     !.numHdr = IF "Numbered" \in T THEN Answers(items[1].v).numHdr ELSE <<>>,
     !.caption = IF "Captioned" \in T THEN Answers(items[1].v).caption ELSE <<>>,
     !.styles = IF "Styled" \in T THEN Answers(items[1].v).styles ELSE <<>>,
     !.groups = IF "Grouped" \in T THEN [i \in 1..Len(items) |-> Answers(items[i].v).group] ELSE <<>>,
     !.wrapWidths = IF "Wrapped" \in T THEN Answers(items[1].v).wrapWidths ELSE <<>>,
     !.pageSize = IF "Paged" \in T THEN Answers(items[1].v).pageSize ELSE 0,
     !.truncated = "Truncated" \in T,
     !.maxWidths = IF "Truncated" \in T THEN Answers(items[1].v).maxWidths ELSE <<>>]

\* writeMarkdown up to the width computation, for a type with Rower and Headed.
gatherMarkdown(items, T) ==
  [header |-> Answers(items[1].v).header,
   rows |-> [i \in 1..Len(items) |-> items[i].row],
   aligns |-> IF "Aligned" \in T THEN Answers(items[1].v).aligns ELSE <<>>]

\* ---------------------------------------------------------- state machine
VARIABLES
  pc,        \* "idle": no call in progress; "iter": inside seq; "done": the call has returned
  api,       \* the entry point called: "Write", "Marshal", "WriteIter", "WriteChan"
  format,    \* the tag passed to the call
  src,       \* the items passed to the call, or all the items the producer will produce
  nilItems,  \* Write/Marshal were called with no items argument (a nil slice)
  w,         \* the sink
  ret,       \* the error the call returned
  content,   \* the bytes Marshal returned (empty: nil)
  fmtCalls,  \* ids of the items whose Format was invoked, in order
  stream,    \* the stream function running
  loc,       \* its locals
  seqCalled, \* the stream function has invoked seq
  pending,   \* items the producer has not yet yielded (WriteIter) or sent (WriteChan)
  ch,        \* the items buffered in the channel
  closed,    \* the channel has been closed
  stopped,   \* the callback has returned false
  pulled,    \* the items passed to the callback so far, in order
  heap,      \* the backing arrays of the []Format slices; heap[1] is that of `formats`
  held,      \* the arrays of the slices Formats() has returned to the caller
  mutations, \* the number of elements the caller has overwritten in them
  result,    \* the last call of Formats, ParseFormat or IsSupported and what it returned
  layout,    \* the last writeTable or writeMarkdown call: its input and the lines it wrote
  wrap       \* a wrapCell call: its arguments, the text left and the lines so far

vars == <<pc, api, format, src, nilItems, w, ret, content, fmtCalls, stream, loc,
          seqCalled, pending, ch, closed, stopped, pulled, heap, held, mutations, result,
          layout, wrap>>

\* The state of the format registry and of its caller.
regVars == <<heap, held, mutations, result>>

\* The state of a Write, Marshal, WriteIter or WriteChan call.
callVars == <<pc, api, format, src, nilItems, w, ret, content, fmtCalls, stream, loc,
             seqCalled, pending, ch, closed, stopped, pulled>>

\* fn: the function called; s, T: its arguments; val, ok, err: what it returned
\* (val a tag or a slice of tags, ok the bool of IsSupported).
NoResult == [fn |-> "", s |-> <<>>, T |-> {}, val |-> <<>>, ok |-> FALSE, err |-> OK]

\* var formats = []Format{...}: one array, no slice handed out yet.
RegInit == heap = <<formats>> /\ held = {} /\ mutations = 0 /\ result = NoResult

\* The state of the layout functions.
layVars == <<layout, wrap>>

\* t: the table as writeTable gathered it (widths: filled in by writeTable);
\* m: the header, rows and alignments writeMarkdown gathered.
NoLayout == [fn |-> "", items |-> <<>>, T |-> {}, t |-> NoTable, p |-> NoTable, lines |-> <<>>]
NoWrap == [pc |-> "idle", text |-> <<>>, width |-> 0, s |-> <<>>, lines |-> <<>>]
LayInit == layout = NoLayout /\ wrap = NoWrap

Init ==
  /\ pc = "idle" /\ api = "" /\ format = <<>> /\ src = <<>> /\ nilItems = FALSE
  /\ w = NewSink(Reliable) /\ ret = OK /\ content = <<>> /\ fmtCalls = <<>>
  /\ stream = "" /\ loc = NewLocals /\ seqCalled = FALSE
  /\ pending = <<>> /\ ch = <<>> /\ closed = FALSE /\ stopped = FALSE /\ pulled = <<>>
  /\ RegInit
  /\ LayInit

NoStream ==
  /\ stream' = "" /\ loc' = NewLocals /\ seqCalled' = FALSE
  /\ pending' = <<>> /\ ch' = <<>> /\ closed' = FALSE /\ stopped' = FALSE /\ pulled' = <<>>

\* The call returns r: the sink as the call left it, its error, and the
\* Format calls it made after those in fc.
Returns(r, fc) == w' = r.w /\ ret' = r.err /\ fmtCalls' = fc \o r.fc

\* Marshal that returns buf.Bytes() whether or not Write failed.
MarshalReturns_KeepsPartial(r) == Returns(r, <<>>) /\ content' = r.w.out

\* Marshal returns buf.Bytes(), or nil with the error.
MarshalReturns(r) == Returns(r, <<>>) /\ content' = IF r.err # OK THEN <<>> ELSE r.w.out

\* Write(w, f, items...)
WriteCall(f, items, isNil, plan) ==
  /\ pc = "idle"
  /\ Returns(Write(NewSink(plan), f, items, isNil), <<>>)
  /\ pc' = "done" /\ api' = "Write" /\ format' = f /\ src' = items /\ nilItems' = isNil
  /\ content' = <<>>
  /\ NoStream
  /\ UNCHANGED <<regVars, layVars>>

\* Marshal(f, items...): Write into a bytes.Buffer, which accepts every write.
MarshalCall(f, items, isNil) ==
  /\ pc = "idle"
  /\ MarshalReturns(Write(NewSink(Reliable), f, items, isNil))
  /\ pc' = "done" /\ api' = "Marshal" /\ format' = f /\ src' = items /\ nilItems' = isNil
  /\ NoStream
  /\ UNCHANGED <<regVars, layVars>>

\* What a stream function does before it invokes seq: streamJSON writes "[".
BeforeSeq(strm, sink) == IF strm = "streamJSON" THEN Emit(sink, <<Wr(<<Lit("[")>>)>>) ELSE Res(sink, OK)

\* The stream function returns the error of a failed write, else invokes seq.
Started(r) ==
  IF r.err # OK
    THEN w' = r.w /\ ret' = r.err /\ pc' = "done" /\ seqCalled' = FALSE
    ELSE w' = r.w /\ ret' = OK /\ pc' = "iter" /\ seqCalled' = TRUE

\* WriteIter(w, f, seq) up to the invocation of seq (or to its return, when
\* seq is never invoked).  entry is "WriteIter" or "WriteChan".
StartStream(entry, f, items, plan) ==
  /\ pc = "idle"
  /\ api' = entry /\ format' = f /\ src' = items /\ nilItems' = FALSE
  /\ content' = <<>> /\ fmtCalls' = <<>>
  /\ pending' = items /\ ch' = <<>> /\ closed' = FALSE /\ stopped' = FALSE /\ pulled' = <<>>
  /\ stream' = StreamOf(f) /\ loc' = NewLocals
  /\ IF StreamOf(f) = ""
       THEN w' = NewSink(plan) /\ ret' = ErrUnsupportedFormat /\ pc' = "done" /\ seqCalled' = FALSE
       ELSE Started(BeforeSeq(StreamOf(f), NewSink(plan)))
  /\ UNCHANGED <<regVars, layVars>>

\* WriteIter over a sequence that yields the items of a slice in order.
WriteIterCall(f, items, plan) == StartStream("WriteIter", f, items, plan)

\* WriteChan over a channel a concurrent producer sends the items to.
WriteChanCall(f, items, plan) == StartStream("WriteChan", f, items, plan)

\* The callback has returned y.
Called(y) == loc' = y.loc /\ w' = y.w /\ stopped' = ~y.cont /\ fmtCalls' = fmtCalls \o y.fc

\* The callback runs on one item.
Invoke(item) == Called(Callback(stream, loc, w, item)) /\ pulled' = Append(pulled, item.id)

\* seq yields its next item: yield(item).
IterNext ==
  /\ pc = "iter" /\ api = "WriteIter" /\ ~stopped /\ pending # <<>>
  /\ Invoke(Head(pending))
  /\ pending' = Tail(pending)
  /\ UNCHANGED <<pc, api, format, src, nilItems, ret, content, stream, seqCalled, ch, closed>>
  /\ UNCHANGED <<regVars, layVars>>

\* The producer sends its next item to the channel.
ChanSend ==
  /\ api = "WriteChan" /\ pc # "idle" /\ ~closed /\ pending # <<>> /\ Len(ch) < ChanCap
  /\ ch' = Append(ch, Head(pending))
  /\ pending' = Tail(pending)
  /\ UNCHANGED <<pc, api, format, src, nilItems, w, ret, content, fmtCalls, stream, loc,
                 seqCalled, closed, stopped, pulled>>
  /\ UNCHANGED <<regVars, layVars>>

\* The producer closes the channel after its last send.
ChanClose ==
  /\ api = "WriteChan" /\ pc # "idle" /\ ~closed /\ pending = <<>>
  /\ closed' = TRUE
  /\ UNCHANGED <<pc, api, format, src, nilItems, w, ret, content, fmtCalls, stream, loc,
                 seqCalled, pending, ch, stopped, pulled>>
  /\ UNCHANGED <<regVars, layVars>>

\* ChanRecv that goes on receiving after yield has returned false.
ChanRecv_IgnoresStop ==
  /\ pc = "iter" /\ api = "WriteChan" /\ ch # <<>>
  /\ Invoke(Head(ch))
  /\ ch' = Tail(ch)
  /\ UNCHANGED <<pc, api, format, src, nilItems, ret, content, stream, seqCalled, pending, closed>>
  /\ UNCHANGED <<regVars, layVars>>

\* chanToIter: `for item := range ch { if !yield(item) { return } }` receives.
ChanRecv ==
  /\ pc = "iter" /\ api = "WriteChan" /\ ~stopped /\ ch # <<>>
  /\ Invoke(Head(ch))
  /\ ch' = Tail(ch)
  /\ UNCHANGED <<pc, api, format, src, nilItems, ret, content, stream, seqCalled, pending, closed>>
  /\ UNCHANGED <<regVars, layVars>>

\* SeqReturns that takes an empty channel for a closed one.
SeqReturns_OnEmptyChannel ==
  \/ stopped
  \/ api = "WriteIter" /\ pending = <<>>
  \/ api = "WriteChan" /\ ch = <<>>

\* seq has returned: the sequence is exhausted (the channel closed and
\* drained) or the callback returned false.
SeqReturns ==
  \/ stopped
  \/ api = "WriteIter" /\ pending = <<>>
  \/ api = "WriteChan" /\ closed /\ ch = <<>>

\* The stream function runs to its return.
StreamReturn ==
  /\ pc = "iter" /\ SeqReturns
  /\ Returns(AfterSeq(stream, loc, w, format), fmtCalls)
  /\ pc' = "done"
  /\ UNCHANGED <<api, format, src, nilItems, content, stream, loc, seqCalled, pending, ch,
                 closed, stopped, pulled>>
  /\ UNCHANGED <<regVars, layVars>>

\* The caller moves on to its next call.
Return ==
  /\ pc = "done"
  /\ pc' = "idle" /\ api' = "" /\ format' = <<>> /\ src' = <<>> /\ nilItems' = FALSE
  /\ w' = NewSink(Reliable) /\ ret' = OK /\ content' = <<>> /\ fmtCalls' = <<>>
  /\ NoStream
  /\ UNCHANGED <<regVars, layVars>>

Calls == {c \in [f : Tags, items : Batches, isNil : BOOLEAN, plan : SinkPlans] :
            c.isNil => Len(c.items) = 0}

Next ==
  \/ pc = "idle" /\ \E c \in Calls : WriteCall(c.f, c.items, c.isNil, c.plan)
  \/ pc = "idle" /\ \E c \in Calls : c.plan = Reliable /\ MarshalCall(c.f, c.items, c.isNil)
  \/ pc = "idle" /\ \E c \in Calls : ~c.isNil /\ WriteIterCall(c.f, c.items, c.plan)
  \/ pc = "idle" /\ \E c \in Calls : ~c.isNil /\ WriteChanCall(c.f, c.items, c.plan)
  \/ IterNext
  \/ ChanSend
  \/ ChanClose
  \/ ChanRecv
  \/ StreamReturn
  \/ Return

Spec == Init /\ [][Next]_vars

\* One WriteChan call with its concurrent producer, from the call to its return.
WriteChanNext ==
  \/ pc = "idle" /\ \E c \in Calls : ~c.isNil /\ WriteChanCall(c.f, c.items, c.plan)
  \/ ChanSend
  \/ ChanClose
  \/ ChanRecv
  \/ StreamReturn

\* The steps of WriteChanNext that are a ChanRecv step are those that extend
\* pulled, and those that are a StreamReturn step are those that end the call
\* from inside seq.
Receives == pc = "iter" /\ api = "WriteChan" /\ ~stopped /\ ch # <<>> /\ pulled' = Append(pulled, Head(ch).id)
Finishes == pc = "iter" /\ SeqReturns /\ pc' = "done"

\* The producer goroutine and the goroutine inside WriteChan both keep running:
\* a send, a close, a receive or a return that stays possible happens.
WriteChanSpec ==
  /\ Init /\ [][WriteChanNext]_vars
  /\ WF_vars(ChanSend) /\ WF_vars(ChanClose) /\ WF_pulled(Receives) /\ WF_pc(Finishes)

\* ------------------------------------------------------- format registry
MaxCopies == 2
MaxMutations == 2

\* func (f Format) String() string { return string(f) }
String(f) == f

\* Formats() that returns the package-level slice itself.
Formats_ReturnsShared == [heap |-> heap, ref |-> 1]

\* Formats(): out := make([]Format, len(formats)); copy(out, formats); return out.
\* heap: the arrays after the call; ref: the array of the slice returned.
Formats == [heap |-> Append(heap, [i \in 1..Len(heap[1]) |-> heap[1][i]]), ref |-> Len(heap) + 1]

\* for _, f := range formats { if string(f) == s { return f, nil } }: the index
\* of the first match from i on, 0 when there is none.
RECURSIVE Lookup(_, _, _)
Lookup(fs, s, i) ==
  IF i > Len(fs) THEN 0
  ELSE IF String(fs[i]) = s THEN i
  ELSE Lookup(fs, s, i + 1)

\* The return of ParseFormat for a match at index i of formats (0: none).
Matched(s, i) ==
  IF i > 0 THEN [val |-> heap[1][i], err |-> OK] ELSE [val |-> <<>>, err |-> ErrUnsupportedFormat]

\* ParseFormat that parses the template of a go-template= string.
ParseFormat_ValidatesTemplate(s) ==
  IF HasPrefix(s, goTemplatePrefix)
    THEN IF TemplateParses(CutPrefix(s, goTemplatePrefix)) THEN [val |-> s, err |-> OK]
         ELSE [val |-> <<>>, err |-> ErrInvalidTemplate]
    ELSE Matched(s, Lookup(heap[1], s, 1))

ParseFormat(s) ==
  IF HasPrefix(s, goTemplatePrefix) THEN [val |-> s, err |-> OK]
  ELSE Matched(s, Lookup(heap[1], s, 1))

\* IsSupported that asks Markdown for Rower only.
IsSupported_MarkdownRowerOnly(T, f) ==
  IF HasPrefix(String(f), goTemplatePrefix) THEN TRUE
  ELSE CASE f \in {JSON, YAML, Plain, JSONL} -> TRUE
         [] f \in {CSV, Table, TSV, HTML, Markdown} -> "Rower" \in T
         [] f = List -> "Lister" \in T
         [] f = ENV -> "Mappable" \in T
         [] OTHER -> FALSE

\* IsSupported that asks HTML for Headed as well.
IsSupported_HTMLNeedsHeaded(T, f) ==
  IF HasPrefix(String(f), goTemplatePrefix) THEN TRUE
  ELSE CASE f \in {JSON, YAML, Plain, JSONL} -> TRUE
         [] f \in {CSV, Table, TSV} -> "Rower" \in T
         [] f \in {Markdown, HTML} -> "Rower" \in T /\ "Headed" \in T
         [] f = List -> "Lister" \in T
         [] f = ENV -> "Mappable" \in T
         [] OTHER -> FALSE

\* IsSupported[T](f); T is the set of interfaces the type implements.
IsSupported(T, f) ==
  IF HasPrefix(String(f), goTemplatePrefix) THEN TRUE
  ELSE CASE f \in {JSON, YAML, Plain, JSONL} -> TRUE
         [] f \in {CSV, Table, TSV, HTML} -> "Rower" \in T
         [] f = Markdown -> "Rower" \in T /\ "Headed" \in T
         [] f = List -> "Lister" \in T
         [] f = ENV -> "Mappable" \in T
         [] OTHER -> FALSE

\* Strings that differ from a static tag in case or by a trailing space, and
\* the bare template prefix.
UpperJSON == <<"J", "S", "O", "N">>
PaddedJSON == <<"j", "s", "o", "n", " ">>
ParseInputs == Tags \cup {XML, Empty, NearMiss, UpperJSON, PaddedJSON, GoTemplate(<<>>)}

\* What the caller writes into an element of a slice it holds: a tag that is
\* not in the list.
MutValues == {XML}

\* The caller calls Formats().
FormatsCall ==
  /\ result = NoResult
  /\ Len(heap) <= MaxCopies
  /\ heap' = Formats.heap
  /\ held' = held \cup {Formats.ref}
  /\ result' = [NoResult EXCEPT !.fn = "Formats", !.val = Formats.heap[Formats.ref]]
  /\ UNCHANGED mutations
  /\ UNCHANGED <<callVars, layVars>>

\* The caller overwrites element i of a slice it got from Formats().
Mutate(r, i, v) ==
  /\ mutations < MaxMutations
  /\ r \in held /\ i \in 1..Len(heap[r])
  /\ heap' = [heap EXCEPT ![r][i] = v]
  /\ mutations' = mutations + 1
  /\ UNCHANGED <<held, result>>
  /\ UNCHANGED <<callVars, layVars>>

\* The caller calls ParseFormat(s).
ParseFormatCall(s) ==
  /\ result = NoResult
  /\ result' = [NoResult EXCEPT !.fn = "ParseFormat", !.s = s,
                                !.val = ParseFormat(s).val, !.err = ParseFormat(s).err]
  /\ UNCHANGED <<heap, held, mutations>>
  /\ UNCHANGED <<callVars, layVars>>

\* The caller calls IsSupported[T](f), which reads no package-level state: the
\* calls are made before the caller touches the registry.
IsSupportedCall(T, f) ==
  /\ result = NoResult /\ held = {} /\ mutations = 0
  /\ result' = [NoResult EXCEPT !.fn = "IsSupported", !.s = f, !.T = T,
                                !.ok = IsSupported(T, f)]
  /\ UNCHANGED <<heap, held, mutations>>
  /\ UNCHANGED <<callVars, layVars>>

\* The caller moves on to its next call.
RegReturn ==
  /\ result # NoResult
  /\ result' = NoResult
  /\ UNCHANGED <<heap, held, mutations>>
  /\ UNCHANGED <<callVars, layVars>>

RegNext ==
  \/ FormatsCall
  \/ \E r \in held : \E i \in 1..Len(formats) : \E v \in MutValues : Mutate(r, i, v)
  \/ \E s \in ParseInputs : ParseFormatCall(s)
  \/ \E T \in Types : \E f \in ParseInputs : IsSupportedCall(T, f)
  \/ RegReturn

RegSpec == Init /\ [][RegNext]_vars

\* ------------------------------------------------------ wrapCell, stepwise
MaxText == 4
MaxWrap == 3
Chars == {"a", "W", "^"}
Texts == UNION {[1..n -> Chars] : n \in 0..MaxText}

\* wrapCell(text, width) up to its loop: a text that fits, or a width <= 0,
\* is returned as the only line.
WrapCall(text, width) ==
  /\ wrap.pc = "idle"
  /\ wrap' = IF width <= 0 \/ StringWidth(text) <= width
               THEN [pc |-> "done", text |-> text, width |-> width, s |-> text, lines |-> <<text>>]
               ELSE [pc |-> "loop", text |-> text, width |-> width, s |-> text, lines |-> <<>>]
  /\ UNCHANGED <<callVars, regVars, layout>>

\* One iteration of `for len(s) > 0`.
WrapStep ==
  /\ wrap.pc = "loop" /\ Len(wrap.s) > 0
  /\ wrap' = [wrap EXCEPT !.lines = Append(@, wrapLine(wrap.s, wrap.width)),
                          !.s = SubSeq(@, Len(wrapLine(wrap.s, wrap.width)) + 1, Len(@))]
  /\ UNCHANGED <<callVars, regVars, layout>>

\* The loop ends and wrapCell returns lines.
WrapReturn ==
  /\ wrap.pc = "loop" /\ Len(wrap.s) = 0
  /\ wrap' = [wrap EXCEPT !.pc = "done"]
  /\ UNCHANGED <<callVars, regVars, layout>>

\* The caller moves on to its next call.
WrapReset ==
  /\ wrap.pc = "done"
  /\ wrap' = NoWrap
  /\ UNCHANGED <<callVars, regVars, layout>>

WrapNext ==
  \/ \E text \in Texts : \E width \in -1..MaxWrap : WrapCall(text, width)
  \/ WrapStep
  \/ WrapReturn
  \/ WrapReset

\* wrapCell runs on one goroutine: its loop goes on until it returns.
WrapSpec == Init /\ [][WrapNext]_vars /\ WF_vars(WrapStep) /\ WF_vars(WrapReturn)

\* ------------------------------------------- writeTable and writeMarkdown
MaxTableRows == 2
MaxPagedRows == 5

\* Cell texts: one narrow character; a full-width character first; a
\* combining mark inside; seven columns of text.
Short == <<"a">>
WideCell == <<"W", "a">>
Marked == <<"a", "^", "b">>
Long == <<"a", "b", "W", "a", "b", "a">>
LongTitle == <<"t", "W", "t", "t", "t", "t", "t", "t">>

\* Row() of an item: two cells, or one, or an empty first cell.
RowKinds == {<<Short, Long>>, <<WideCell, Marked>>, <<Long>>, <<<<>>, WideCell>>}
RowSets == UNION {[1..n -> RowKinds] : n \in 1..MaxTableRows}
Headers == {<<>>, <<<<"h">>, <<"h", "W", "h", "h", "h">>>>}
Footers == {<<>>, <<WideCell>>}

\* Tables that vary in what decides the widths: cell texts, header, footer,
\* title, border, numbering, alignments and styles, max widths, wrap widths.
WidthInputs ==
  {[NoTable EXCEPT !.rows = rows, !.header = x.header, !.footer = x.footer, !.title = x.frame[2],
                   !.border = x.frame[1], !.numbered = x.numbered, !.numHdr = <<"#">>,
                   !.aligns = x.aligns, !.styles = x.styles,
                   !.truncated = x.limits[1] # <<>>, !.maxWidths = x.limits[1],
                   !.wrapWidths = x.limits[2]] :
     rows \in RowSets,
     x \in [header : Headers, footer : Footers,
            frame : {<<BorderNone, <<>>>>, <<BorderRounded, <<>>>>, <<BorderRounded, <<"t">>>>,
                     <<BorderRounded, LongTitle>>},
            numbered : BOOLEAN, aligns : {<<>>, <<AlignRight, AlignCenter>>}, styles : {<<>>},
            limits : {<<<<>>, <<>>>>, <<<<4, 2>>, <<>>>>, <<<<1, 5, 3>>, <<>>>>,
                      <<<<>>, <<2, 1>>>>, <<<<>>, <<0, 3>>>>, <<<<4, 2>>, <<2, 1>>>>}]
          \cup [header : Headers, footer : {<<>>}, frame : {<<BorderRounded, <<>>>>},
                numbered : BOOLEAN, aligns : {<<AlignCenter>>}, styles : {<<"*">>, <<"", "*">>},
                limits : {<<<<>>, <<>>>>, <<<<4, 2>>, <<>>>>, <<<<>>, <<2, 1>>>>}]}

\* Tables that vary in what decides the separators: the number of rows, the
\* group keys, the page size, header, footer, border, wrapping, caption.
BreakInputs ==
  {[NoTable EXCEPT !.rows = [r \in 1..Len(x.keys) |-> <<<<"a", "b">>>>],
                   !.groups = IF x.grouped THEN x.keys ELSE <<>>,
                   !.pageSize = x.pageSize, !.header = x.header, !.footer = x.footer,
                   !.border = x.border, !.wrapWidths = x.wrapWidths, !.caption = x.caption] :
     x \in UNION {[keys : [1..n -> {"x", "y"}], grouped : BOOLEAN, pageSize : -1..3,
                   header : {<<>>, <<<<"h", "h", "h">>>>}, footer : {<<>>, <<Short>>},
                   border : {BorderNone, BorderASCII}, wrapWidths : {<<>>, <<1>>},
                   caption : IF n <= MaxTableRows THEN {<<>>, <<"c">>} ELSE {<<>>}] :
                  n \in 1..MaxPagedRows}}

TableInputs == WidthInputs \cup BreakInputs

\* What writeMarkdown gathered: a header of two cells (or none), rows, alignments.
MarkdownInputs ==
  [header : {<<>>, <<<<"h">>, <<"h", "W", "h", "h", "h">>>>, <<Marked>>}, rows : RowSets,
   aligns : {<<>>, <<AlignRight, AlignCenter>>, <<AlignCenter>>, <<AlignLeft, AlignRight, AlignCenter>>}]

\* writeTable(w, items) for items whose rows and item-zero decorations are t.
TableCall(t) ==
  /\ layout.fn = ""
  /\ layout' = [NoLayout EXCEPT !.fn = "writeTable", !.t = t, !.p = tableArgs(t), !.lines = tableLines(t)]
  /\ UNCHANGED <<callVars, regVars, wrap>>

\* writeMarkdown(w, items) for items whose header, rows and alignments are m.
MarkdownCall(m) ==
  /\ layout.fn = ""
  /\ layout' = [NoLayout EXCEPT
                  !.fn = "writeMarkdown",
                  !.t = [NoTable EXCEPT !.header = m.header, !.rows = m.rows, !.aligns = m.aligns,
                                        !.widths = markdownWidths(m.header, m.rows)],
                  !.lines = markdownLines(m)]
  /\ UNCHANGED <<callVars, regVars, wrap>>

\* The caller moves on to its next call.
LayoutReturn ==
  /\ layout.fn # ""
  /\ layout' = NoLayout
  /\ UNCHANGED <<callVars, regVars, wrap>>

LayoutNext ==
  \/ \E m \in MarkdownInputs : MarkdownCall(m)
  \/ \E t \in TableInputs : TableCall(t)
  \/ LayoutReturn

LayoutSpec == Init /\ [][LayoutNext]_vars

\* ------------------------------------------- decorations and item zero
\* The record types with optional methods, in batches whose items answer the
\* optional methods in one of two ways each.
DecoTypes == {TIndented, THeadedRow, TDelimited, TRich, TNoBorder, TList, TEnv}
DecoBatches ==
  UNION {{[i \in 1..n |-> Item(i, t, "never", vs[i])] : vs \in [1..n -> {"text", "alt"}]} :
           <<t, n>> \in DecoTypes \X (1..MaxItems)}
DecoFormats == {JSON, YAML, CSV, TSV, Table, Markdown, HTML, List, ENV}
DecoCalls == [f : DecoFormats, items : DecoBatches, plan : SinkPlans]

\* Batches of text-level items, each answering in one of the two ways, of
\* a type with every optional interface of the Table renderer or with all
\* but Grouped, or with none.
TableCaps == {"Headed", "Titled", "Bordered", "Aligned", "Footered", "Numbered", "Captioned",
              "Styled", "Grouped", "Wrapped", "Paged", "Truncated"}
TextTypes == {TableCaps, TableCaps \ {"Grouped"}, TableCaps \ {"Numbered", "Wrapped"}, {"Headed"}}
TextBatches ==
  UNION {{[i \in 1..n |-> TextItem(<<<<Decimal(i)>>, <<"a", "W", "b">>>>, vs[i])] :
            vs \in [1..n -> {"text", "alt"}]} : n \in 1..MaxItems}

\* writeTable(w, items) on text-level items of a type implementing T.
TableWrite(items, T) ==
  /\ pc = "idle" /\ layout.fn = ""
  /\ layout' = [fn |-> "writeTable", items |-> items, T |-> T, t |-> gatherTable(items, T),
                p |-> tableArgs(gatherTable(items, T)), lines |-> tableLines(gatherTable(items, T))]
  /\ UNCHANGED <<callVars, regVars, wrap>>

\* writeMarkdown(w, items) on text-level items of a type implementing T.
MarkdownWrite(items, T) ==
  /\ pc = "idle" /\ layout.fn = ""
  /\ layout' = [fn |-> "writeMarkdown", items |-> items, T |-> T,
                t |-> [NoTable EXCEPT !.header = gatherMarkdown(items, T).header,
                                      !.rows = gatherMarkdown(items, T).rows,
                                      !.aligns = gatherMarkdown(items, T).aligns],
                p |-> NoTable, lines |-> markdownLines(gatherMarkdown(items, T))]
  /\ UNCHANGED <<callVars, regVars, wrap>>

\* The caller makes one call at a time.
DecoNext ==
  \/ pc = "idle" /\ layout.fn = "" /\ \E c \in DecoCalls : WriteCall(c.f, c.items, FALSE, c.plan)
  \/ Return
  \/ \E items \in TextBatches : \E T \in TextTypes : TableWrite(items, T)
  \/ \E items \in TextBatches : \E T \in TextTypes : MarkdownWrite(items, T)
  \/ LayoutReturn

DecoSpec == Init /\ [][DecoNext]_vars

Done == pc = "done"
Unknown(f) == ~IsStatic(f) /\ ~HasPrefix(f, goTemplatePrefix)
\* The bytes the caller gets: Marshal's return value, else the sink's content.
Output == IF api = "Marshal" THEN content ELSE w.out

\* The ids of the items the tokens of an output were produced for never decrease.
InOrder(out) ==
  \A p \in 1..Len(out) : \A q \in 1..Len(out) :
    (p < q /\ out[p].i # 0 /\ out[q].i # 0) => out[p].i <= out[q].i

\* C1: in the output of every successful Write, Marshal, WriteIter or WriteChan
\* call no byte produced for a later item precedes a byte produced for an
\* earlier item, batches routed through the Formatter path included.
C1_ItemOrder == (Done /\ ret = OK) => InOrder(Output)

\* C2: a Write, Marshal or WriteIter call with a tag that is neither static nor
\* go-template=-prefixed returns UnsupportedFormat and has written no byte to
\* the sink, whatever the items are.
C2_UnsupportedWritesNothing ==
  (Done /\ api \in {"Write", "Marshal", "WriteIter"} /\ Unknown(format))
    => (ret = ErrUnsupportedFormat /\ w.calls = 0)

\* The sink after the override bytes of those of the first n items whose Format
\* returns bytes have been written to it.
OverridesOf(items, f, n) ==
  Concat([i \in 1..n |-> IF FormatResult(items[i], f) = "bytes" THEN OverrideBytes(items[i]) ELSE <<>>])

\* C3: in a Write whose item zero implements Formatter, Format is invoked on the
\* items one at a time in item order, and once an invocation returns an error
\* Write returns that error, invokes no later Format, writes nothing further
\* and does not run the fallback renderer.
C3_FormatErrorAborts ==
  (Done /\ api = "Write" /\ Len(src) > 0 /\ Has(src[1], "Formatter"))
    => /\ Len(fmtCalls) <= Len(src)
       /\ \A k \in 1..Len(fmtCalls) : fmtCalls[k] = src[k].id
       /\ \A k \in 1..Len(fmtCalls) :
            FormatResult(src[k], format) = "err"
              => /\ Len(fmtCalls) = k
                 /\ ret = ErrFormat
                 /\ w.out = OverridesOf(src, format, k - 1)

C3_Witness ==
  /\ Done /\ api = "Write" /\ ret = ErrFormat
  /\ Len(src) = 3 /\ fmtCalls = <<1, 2>>
  /\ FormatResult(src[1], format) = "bytes"
  /\ w.out = OverrideBytes(src[1])

\* The same items as values of a type that has no Format method.
WithoutFormatter(items) == [i \in 1..Len(items) |-> [items[i] EXCEPT !.caps = @ \ {"Formatter"}]]

PlainOnly(items) ==
  Len(items) > 0 /\ \A i \in 1..Len(items) : Has(items[i], "Formatter") /\ items[i].ovr = "plain"

\* C4: for items of a type whose Format returns bytes for Plain only, Write with
\* Plain writes exactly the items' override bytes in item order, and Write with
\* any other tag writes the bytes and returns the error that the same items
\* give when their type has no Formatter.
C4_OverrideFallthrough ==
  (Done /\ api = "Write" /\ PlainOnly(src))
    => IF format = Plain
         THEN Res(w, ret) = Emit(NewSink(w.plan), [i \in 1..Len(src) |-> Wr(OverrideBytes(src[i]))])
         ELSE LET r == Write(NewSink(w.plan), format, WithoutFormatter(src), FALSE)
              IN w = r.w /\ ret = r.err

C4_Witness ==
  /\ Done /\ api = "Write" /\ PlainOnly(src) /\ Len(src) = 3
  /\ format = TSV /\ ret = OK /\ Len(w.out) = 4 /\ Len(fmtCalls) = 3

\* The interfaces a format requires of item zero.
Required(f) ==
  CASE f \in {CSV, TSV, Table, HTML} -> {"Rower"}
    [] f = Markdown -> {"Rower", "Headed"}
    [] f = List -> {"Lister"}
    [] f = ENV -> {"Mappable"}
    [] OTHER -> {}

Lacks(it, f) == ~(Required(f) \subseteq it.caps)

\* The first streamed item of a CSV or TSV stream lacked Rower.
FirstStreamedLacksRower ==
  /\ Done /\ api \in {"WriteIter", "WriteChan"} /\ format \in {CSV, TSV}
  /\ Len(pulled) > 0 /\ ~Has(src[pulled[1]], "Rower")

\* C5 as stated: whenever item zero of a non-empty batch lacks the capability
\* the format requires, Write returns MissingInterface with zero bytes written,
\* and so does a CSV or TSV stream whose first item lacks Rower.
C5_AsStated ==
  /\ (Done /\ api = "Write" /\ Len(src) > 0 /\ Lacks(src[1], format))
       => (ret = ErrMissingInterface /\ w.calls = 0)
  /\ FirstStreamedLacksRower => (ret = ErrMissingInterface /\ w.calls = 0)

\* The batch does not reach the override path, or every item's Format returns
\* (nil, nil) for the format.
NoOverride(items, f) ==
  \/ ~Has(items[1], "Formatter")
  \/ \A i \in 1..Len(items) : Has(items[i], "Formatter") /\ FormatResult(items[i], f) = "nil"

\* C5 amended: when item zero of a non-empty batch lacks the capability the
\* format requires and either does not implement Formatter or every item's
\* Format returns (nil, nil), Write returns MissingInterface with zero bytes
\* written; a CSV or TSV stream whose first item lacks Rower does the same.
C5_MissingInterface ==
  /\ (Done /\ api = "Write" /\ Len(src) > 0 /\ Lacks(src[1], format) /\ NoOverride(src, format))
       => (ret = ErrMissingInterface /\ w.calls = 0)
  /\ FirstStreamedLacksRower => (ret = ErrMissingInterface /\ w.calls = 0)

C5_Witness ==
  /\ Done /\ api = "Write" /\ format = Markdown /\ Len(src) = 2
  /\ Has(src[1], "Rower") /\ ~Has(src[1], "Headed") /\ ~Has(src[1], "Formatter")
  /\ ret = ErrMissingInterface /\ w.calls = 0

\* C6: a call of Write, Marshal, WriteIter or WriteChan with a go-template= tag
\* whose source does not parse returns InvalidTemplate and has written no byte,
\* for any number of items, zero included.
C6_InvalidTemplateRejected ==
  (Done /\ HasPrefix(format, goTemplatePrefix) /\ ~TemplateParses(CutPrefix(format, goTemplatePrefix)))
    => (ret = ErrInvalidTemplate /\ w.calls = 0)

\* C7: once a write to the sink has returned an error, the call attempts no
\* further write, passes no further item to the callback, and returns that
\* failure.
C7_WriteErrorAborts ==
  /\ [](w.late = 0 /\ ((Done /\ w.failed) => ret = ErrWrite))
  /\ [][(w.failed /\ pc = "iter") => (pulled' = pulled /\ w'.calls = w.calls)]_vars

C7_Witness ==
  /\ Done /\ api = "WriteIter" /\ format = JSON /\ ret = ErrWrite
  /\ Len(src) = 3 /\ pulled = <<1, 2>> /\ Len(pending) = 1
  /\ w.calls = 3 /\ w.late = 0

TemplateTags == {f \in Tags : HasPrefix(f, goTemplatePrefix)}

\* C8: for YAML, Table, Markdown, HTML, List, ENV and go-template, WriteIter
\* over a sequence yielding a collection writes the bytes and returns the error
\* that Write gives for the same collection, the sink accepting every
\* write.
C8_CollectedEqualsBatch ==
  (Done /\ api = "WriteIter" /\ w.plan = Reliable
        /\ format \in {YAML, Table, Markdown, HTML, List, ENV} \cup TemplateTags)
    => LET r == Write(NewSink(Reliable), format, src, FALSE)
       IN w.out = r.w.out /\ ret = r.err

\* C9: for CSV, TSV, JSONL, Plain and JSON, WriteIter over a sequence yielding a
\* collection writes the bytes that Write gives for the same collection, the
\* sink accepting every write.
C9_IncrementalEqualsBatch ==
  (Done /\ api = "WriteIter" /\ w.plan = Reliable /\ format \in {CSV, TSV, JSONL, Plain, JSON})
    => w.out = Write(NewSink(Reliable), format, src, FALSE).w.out

\* C10: WriteIter and WriteChan called with a tag that is neither static nor
\* go-template=-prefixed return UnsupportedFormat without invoking the
\* sequence function, receiving from the channel or writing.
C10_UnknownTagConsumesNothing ==
  (api \in {"WriteIter", "WriteChan"} /\ Unknown(format))
    => /\ Done /\ ret = ErrUnsupportedFormat
       /\ ~seqCalled /\ pulled = <<>> /\ w.calls = 0
       /\ ch \o pending = src

C10_Witness ==
  /\ Done /\ api = "WriteChan" /\ format = XML /\ ret = ErrUnsupportedFormat
  /\ Len(src) = 2 /\ Len(ch) = 1 /\ Len(pending) = 1

\* C11: once the callback of a WriteIter or WriteChan call has returned false,
\* it is not invoked again, the sequence is not asked for another item and
\* nothing more is received from the channel (what the producer has queued or
\* still sends stays there), and the call returns the error that stopped it.
C11_StopIsFinal ==
  /\ []((Done /\ stopped) => (ret = loc.err /\ ret # OK))
  /\ [][(stopped /\ pc' # "idle")
          => /\ stopped' /\ pulled' = pulled /\ loc' = loc
             /\ Len(ch') >= Len(ch) /\ SubSeq(ch', 1, Len(ch)) = ch
             /\ (api = "WriteIter" => pending' = pending)]_vars

C11_Witness ==
  /\ Done /\ api = "WriteChan" /\ format = Plain /\ stopped /\ ret = ErrWrite
  /\ Len(src) = 3 /\ pulled = <<1>> /\ Len(ch) = 1 /\ Len(pending) = 1

\* C12: with a producer that sends its items and then closes the channel,
\* every WriteChan call eventually returns; a call that returns no error has
\* passed every item to the callback exactly once, in send order, and returns
\* with the channel closed and empty.
C12_WriteChanReturns ==
  /\ []((Done /\ api = "WriteChan" /\ ret = OK)
          => /\ pulled = [i \in 1..Len(src) |-> src[i].id]
             /\ closed /\ ch = <<>> /\ pending = <<>>)
  /\ ((api = "WriteChan") ~> Done)

C12_Witness ==
  /\ Done /\ api = "WriteChan" /\ format = Table /\ ret = OK
  /\ Len(src) = 3 /\ pulled = <<1, 2, 3>> /\ closed /\ ch = <<>>

\* ------------------------------------------------------------- claim C13
\* The positions of the sink's bytes where the encoding of an item starts,
\* and the number of copies of a framing byte among them.
ItemStarts(out) == {p \in 1..Len(out) : out[p].k = "json"}
Count(out, v) == Cardinality({p \in 1..Len(out) : out[p] = Lit(v)})

\* What streamJSON writes for items when nothing fails: "[", each item's own
\* document and newline with "," before every item but the first, "]\n".
JSONStreamOf(items) ==
  <<Lit("[")>>
  \o Concat([i \in 1..Len(items) |->
               (IF i > 1 THEN <<Lit(",")>> ELSE <<>>)
               \o <<JSONValue(items[i], IF Has(items[i], "Indented") THEN Indent(items[i]) ELSE "",
                              FALSE, FALSE), NL>>])
  \o <<Lit("]"), NL>>

InStreamJSON == pc # "idle" /\ stream = "streamJSON"

\* C13: WriteIter with format JSON writes "[" before it pulls any item,
\* exactly one "," before each item except the first, and "]" plus newline
\* exactly once, after the sequence is exhausted and only if no encode or
\* write failed; after a failure no "]" is ever written.  An empty sequence
\* yields "[" "]" newline.
C13_JSONStreamFraming ==
  InStreamJSON =>
    /\ (seqCalled \/ pulled # <<>>) => (Len(w.out) >= 1 /\ w.out[1] = Lit("["))
    /\ Count(w.out, "[") <= 1
    /\ \A p \in ItemStarts(w.out) :
         IF w.out[p].i = pulled[1]
           THEN p = 2
           ELSE p > 3 /\ w.out[p - 1] = Lit(",") /\ w.out[p - 2] = NL
    /\ \A p \in 1..Len(w.out) :
         w.out[p] = Lit(",") => (p > 2 /\ w.out[p - 1] = NL /\ w.out[p - 2].k = "json")
    /\ Count(w.out, ",") <= Len(pulled)
    /\ Count(w.out, "]") = (IF Done /\ ret = OK THEN 1 ELSE 0)
    /\ (Done /\ ret = OK) => (pulled = [i \in 1..Len(src) |-> src[i].id] /\ w.out = JSONStreamOf(src))
    /\ (Done /\ ret = OK /\ src = <<>>) => w.out = <<Lit("["), Lit("]"), NL>>
    /\ (Done /\ stopped) => (ret # OK /\ ret = loc.err)

C13_Witness ==
  /\ Done /\ api = "WriteIter" /\ format = JSON /\ ret = OK
  /\ Len(src) = 3 /\ Count(w.out, ",") = 2 /\ Count(w.out, "]") = 1

\* ------------------------------------------------------------- claim C14
\* The items that have bytes of their rendering in the sink.
Rendered(out) == {out[p].i : p \in 1..Len(out)} \ {0}
PulledIds == {pulled[j] : j \in 1..Len(pulled)}

\* Inside seq, with no callback failed so far.
Streaming == pc = "iter" /\ ~stopped

WroteNothing == Done /\ api = "Write" /\ Len(src) = 0

\* C15: Write with zero items writes zero bytes and returns no error for CSV,
\* TSV, Table, Markdown, HTML, List, ENV, Plain and JSONL; JSON is the only
\* format that writes something, the literal null and a newline.
C15_ZeroItemNoOp ==
  WroteNothing =>
    /\ format \in {CSV, TSV, Table, Markdown, HTML, List, ENV, Plain, JSONL}
         => (w.calls = 0 /\ w.out = <<>> /\ ret = OK)
    /\ (format = JSON /\ w.plan = Reliable) => (w.out = <<Lit("null"), NL>> /\ ret = OK)
    /\ (IsStatic(format) /\ format # JSON) => w.out = <<>>

\* ------------------------------------------------------------- claim C16
\* The ids of the items encoded in a JSON output, in order, and the number of
\* copies of a bracket or comma in it.
RECURSIVE EncodedIds(_)
EncodedIds(out) ==
  IF out = <<>> THEN <<>>
  ELSE (IF Head(out).k = "json" THEN <<Head(out).i>> ELSE <<>>) \o EncodedIds(Tail(out))
Framing(out, v) == Cardinality({p \in 1..Len(out) : out[p].k = "lit" /\ out[p].v = v})

\* A batch call that handed all its items to writeJSON, which succeeded.
JSONBatchDone ==
  /\ Done /\ api \in {"Write", "Marshal"} /\ format = JSON /\ ret = OK
  /\ Len(src) >= 1 /\ ~Has(src[1], "Formatter")

\* C16: the batch JSON renderer frames by item count only: one item is the
\* whole document, never inside an array; two or more items are one array
\* holding all the items in order; whatever the items' type and values.
C16_JSONFramedByCount ==
  JSONBatchDone =>
    /\ EncodedIds(Output) = [i \in 1..Len(src) |-> src[i].id]
    /\ Output[Len(Output)] = NL
    /\ Len(src) = 1
         => /\ Len(Output) = 2 /\ Output[1].k = "json" /\ Output[1].s = "doc"
            /\ Framing(Output, "[") = 0 /\ Framing(Output, "]") = 0
    /\ Len(src) >= 2
         => /\ Len(Output) = 2 * Len(src) + 2
            /\ Output[1].k = "lit" /\ Output[1].v = "["
            /\ Output[Len(Output) - 1].k = "lit" /\ Output[Len(Output) - 1].v = "]"
            /\ Framing(Output, "[") = 1 /\ Framing(Output, "]") = 1
            /\ Framing(Output, ",") = Len(src) - 1

C16_Witness ==
  /\ JSONBatchDone /\ api = "Write" /\ Len(src) = 1 /\ src[1].caps = TRich
  /\ Len(w.out) = 2 /\ w.out[1].k = "json"

\* ------------------------------------------------------------- claim C17
\* C17: the library never panics: every call of Write, Marshal, WriteIter or
\* WriteChan returns normally, with success or an ordinary error value, also
\* for a batch in which a later item lacks a capability that item zero has.
C17_NeverPanics == Done => ret # Panic

\* ------------------------------------------------------------- claim C18
ElevenTags == <<JSON, YAML, CSV, Table, Markdown, List, ENV, Plain, TSV, JSONL, HTML>>

\* C18: after any Formats() calls interleaved with mutations of the slices
\* they returned, every later Formats() call returns the eleven tags in
\* order and ParseFormat accepts, among strings without the template prefix,
\* exactly those tags: the package-level list is never changed by a caller.
C18_FormatsImmutable ==
  /\ heap[1] = ElevenTags
  /\ result.fn = "Formats" => result.val = ElevenTags
  /\ (result.fn = "ParseFormat" /\ ~HasPrefix(result.s, goTemplatePrefix))
       => (result.err = OK <=> \E i \in 1..Len(ElevenTags) : ElevenTags[i] = result.s)

\* Formats() called after the caller has overwritten elements of a slice from
\* an earlier call.
C18_Witness ==
  /\ result.fn = "Formats" /\ result.val = ElevenTags
  /\ mutations = MaxMutations
  /\ \E r \in held : heap[r] # ElevenTags /\ heap[r][1] = XML

\* ------------------------------------------------------------- claim C19
\* C19: ParseFormat(s) succeeds exactly when s is one of the eleven static
\* tags or starts with go-template=, and then returns the tag whose string is
\* s unchanged, whatever the template text; for every other string it returns
\* the empty tag and UnsupportedFormat.  So ParseFormat(f.String()) = f for
\* every static tag and every GoTemplate(t).
C19_ParseFormat ==
  result.fn = "ParseFormat" =>
    IF IsStatic(result.s) \/ HasPrefix(result.s, goTemplatePrefix)
      THEN result.err = OK /\ String(result.val) = result.s
      ELSE result.err = ErrUnsupportedFormat /\ result.val = <<>>

\* ParseFormat of the string of a template tag whose template does not parse.
C19_Witness ==
  /\ result.fn = "ParseFormat" /\ result.s = String(GoTemplate(TmplBad))
  /\ result.err = OK /\ result.val = GoTemplate(TmplBad)
  /\ ~TemplateParses(TmplBad)

\* ------------------------------------------------------------- claim C20
\* C20: IsSupported[T](f) is true for every go-template= tag and for JSON,
\* YAML, Plain, JSONL; for CSV, Table, TSV, HTML iff T implements Rower; for
\* Markdown iff T implements Rower and Headed; for List iff Lister; for ENV
\* iff Mappable; false for any other tag.
C20_IsSupported ==
  result.fn = "IsSupported" =>
    LET f == result.s
        T == result.T
    IN /\ HasPrefix(f, goTemplatePrefix) => result.ok
       /\ f \in {JSON, YAML, Plain, JSONL} => result.ok
       /\ f \in {CSV, Table, TSV, HTML} => (result.ok <=> "Rower" \in T)
       /\ f = Markdown => (result.ok <=> {"Rower", "Headed"} \subseteq T)
       /\ f = List => (result.ok <=> "Lister" \in T)
       /\ f = ENV => (result.ok <=> "Mappable" \in T)
       /\ (~IsStatic(f) /\ ~HasPrefix(f, goTemplatePrefix)) => ~result.ok

\* Markdown asked of a type with Rower but without Headed.
C20_Witness ==
  /\ result.fn = "IsSupported" /\ result.s = Markdown /\ result.T = TBasicRow
  /\ ~result.ok

\* ------------------------------------------------------------- claim C21
\* Marshal's return values agree with what Write did (r) on an empty sink
\* that accepts every write.
AgreesWithWrite(r) ==
  /\ ret = r.err
  /\ r.err = OK => content = r.w.out
  /\ r.err # OK => content = <<>>

\* C21: Marshal(f, items...) returns exactly the bytes Write(sink, f,
\* items...) writes to an initially empty sink, with a nil error; whenever
\* Write returns an error Marshal returns that error and nil content, never
\* the bytes written before the failure.
C21_MarshalIsWrite ==
  (Done /\ api = "Marshal") => AgreesWithWrite(Write(NewSink(Reliable), format, src, nilItems))

\* Write failed after it had written bytes to Marshal's buffer.
C21_Witness ==
  /\ Done /\ api = "Marshal" /\ ret = ErrFormat
  /\ w.out # <<>> /\ content = <<>>

\* ------------------------------------------------------------- claim C28
\* The lines wrapCell returned fit the wrap width, but for a line that is one
\* character wider than the wrap width.
WrappedLinesFit ==
  \A l \in 1..Len(wrap.lines) :
    \/ StringWidth(wrap.lines[l]) <= wrap.width
    \/ Len(wrap.lines[l]) = 1 /\ RuneWidth(wrap.lines[l][1]) > wrap.width

\* C28: wrapCell terminates for every text and wrap width, each iteration of
\* its loop consuming at least one character; the lines it returns,
\* concatenated in order, are the text; a text that fits, or a wrap width
\* <= 0, gives exactly one line; every line fits the wrap width except a line
\* of one character that alone is wider.
C28_WrapCellTerminates ==
  /\ [][(wrap.pc = "loop" /\ wrap'.pc = "loop") => Len(wrap'.s) < Len(wrap.s)]_vars
  /\ ((wrap.pc = "loop") ~> (wrap.pc = "done"))
  /\ [](wrap.pc = "done" =>
          /\ Concat(wrap.lines) = wrap.text
          /\ (wrap.width <= 0 \/ StringWidth(wrap.text) <= wrap.width) => wrap.lines = <<wrap.text>>
          /\ wrap.width > 0 => WrappedLinesFit
          /\ wrap.lines = wrapCell(wrap.text, wrap.width))

\* A full-width character met with wrap width 1, after a combining mark.
C28_Witness ==
  /\ wrap.pc = "done" /\ wrap.width = 1 /\ wrap.text = <<"^", "W", "a", "a">>
  /\ wrap.lines = <<<<"^">>, <<"W">>, <<"a">>, <<"a">>>>

\* ------------------------------------------------------------------ C29
\* The text of column i in a line framed by "| " and " |" whose cells are
\* joined by " | " and are as wide as the widths say.
FramedCell(text, widths, i) ==
  SubSeq(text, 3 + Sum([j \in 1..(i - 1) |-> widths[j] + 3]),
               2 + Sum([j \in 1..(i - 1) |-> widths[j] + 3]) + widths[i])

Dashes(s, from, to) == \A k \in from..to : s[k] = "-"

\* What the claim says of a separator cell of a column of a given width.
IsSepCell(cell, width, align) ==
  /\ Len(cell) = width
  /\ \E k \in 1..width : cell[k] = "-"
  /\ CASE align = AlignRight -> Dashes(cell, 1, width - 1) /\ cell[width] = ":"
       [] align = AlignCenter -> cell[1] = ":" /\ Dashes(cell, 2, width - 1) /\ cell[width] = ":"
       [] OTHER -> Dashes(cell, 1, width)

AlignOf(aligns, i) == IF i <= Len(aligns) THEN aligns[i] ELSE AlignLeft

\* C29: in Markdown output every column is at least three wide, the
\* separator cell of a column is exactly as wide as the column and is made of
\* width-1 dashes and ":" for Right, ":" width-2 dashes ":" for Center, and
\* dashes only otherwise, so it holds at least one dash; and the header row,
\* the separator row and every data row have the same display width.
C29_MarkdownColumns ==
  layout.fn = "writeMarkdown" =>
    /\ Len(layout.t.widths) = Len(layout.t.header)
    /\ Len(layout.lines) = 2 + Len(layout.t.rows)
    /\ layout.lines[1].k = "header" /\ layout.lines[2].k = "sep"
    /\ \A i \in 1..Len(layout.t.widths) :
         /\ layout.t.widths[i] >= 3
         /\ IsSepCell(FramedCell(layout.lines[2].text, layout.t.widths, i), layout.t.widths[i],
                      AlignOf(layout.t.aligns, i))
    /\ \A l \in 1..Len(layout.lines) :
         StringWidth(layout.lines[l].text) = StringWidth(layout.lines[1].text)

\* A Right column of width 3 and a Center column of width 6 under a header
\* with a full-width character.
C29_Witness ==
  /\ layout.fn = "writeMarkdown"
  /\ layout.t.aligns = <<AlignRight, AlignCenter>>
  /\ layout.t.rows = <<(<<WideCell, Marked>>)>>
  /\ layout.lines[1].text = <<"|", " ", " ", " ", "h", " ", "|", " ", "h", "W", "h", "h", "h", " ", "|">>
  /\ layout.lines[2].text = <<"|", " ", "-", "-", ":", " ", "|", " ", ":", "-", "-", "-", "-", ":", " ", "|">>
  /\ layout.lines[3].text = <<"|", " ", "W", "a", " ", "|", " ", " ", " ", "a", "^", "b", " ", " ", " ", "|">>

\* ------------------------------------------------------------------ C23
\* The lines of the bordered block: everything but the caption line.
BlockLines == SelectSeq(layout.lines, LAMBDA l : l.k # "caption")

Bordered == layout.fn = "writeTable" /\ layout.t.border # BorderNone
Unstyled == \A i \in 1..Len(layout.t.styles) : layout.t.styles[i] = ""

\* C23: in a bordered table without style functions every line of the
\* bordered block (top border, title line, transition line, header,
\* separators, data and footer lines, bottom border) has the same total
\* display width, also with full-width or combining characters in the cells
\* or the title and with a title longer than the columns.
C23_BorderedLinesAlign ==
  (Bordered /\ Unstyled) =>
    \A l \in 1..Len(BlockLines) : StringWidth(BlockLines[l].text) = StringWidth(BlockLines[1].text)

\* The same with the title line left out: the borders, the header, the
\* separators and the data and footer lines of a bordered table line up.
C23_GridLinesAlign ==
  (Bordered /\ Unstyled) =>
    \A l \in 1..Len(BlockLines) :
      BlockLines[l].k # "title" => StringWidth(BlockLines[l].text) = StringWidth(BlockLines[1].text)

\* ------------------------------------------------------------------ C27
\* strings.Split(text, sep) for a one-character separator.
RECURSIVE SplitAt(_, _, _)
SplitAt(text, sep, cur) ==
  IF text = <<>> THEN <<cur>>
  ELSE IF Head(text) = sep THEN <<cur>> \o SplitAt(Tail(text), sep, <<>>)
  ELSE SplitAt(Tail(text), sep, Append(cur, Head(text)))

\* The framed cells of a line of a bordered table: what stands between two
\* vertical glyphs.
FramedCells(line) ==
  SubSeq(SplitAt(line.text, borderSets(layout.p.border).vertical, <<>>), 2,
         Len(SplitAt(line.text, borderSets(layout.p.border).vertical, <<>>)) - 1)

\* The longest prefix of s of display width at most w.
LongestPrefix(s, limit) ==
  SubSeq(s, 1, CHOOSE n \in 0..Len(s) :
                 /\ StringWidth(SubSeq(s, 1, n)) <= limit
                 /\ \A m \in (n + 1)..Len(s) : StringWidth(SubSeq(s, 1, m)) > limit)

\* What the claim says a cell wider than its column is cut to.
CutAsSpecified(s, W) == IF W > 3 THEN LongestPrefix(s, W - 3) \o Ellipsis ELSE LongestPrefix(s, W)

Min(a, b) == IF a <= b THEN a ELSE b

\* The widths before the clamp, of the table as the render functions get it.
ComputedWidths ==
  computeWidths(Len(layout.p.widths), layout.p.header, layout.p.rows, layout.p.footer)

IsCellLine(line) == line.k \in {"header", "pageHeader", "row", "footer"}

\* The cells a line of kind k for row r was drawn from.
SourceCells(line) ==
  CASE line.k \in {"header", "pageHeader"} -> layout.p.header
    [] line.k = "footer" -> layout.p.footer
    [] OTHER -> layout.p.rows[line.r + 1]

\* C27: a configured positive max width only shrinks a column: the width
\* is the smaller of the computed width and the max width; a cell wider than
\* its column width W is drawn as its longest prefix of display width at most
\* W-3 followed by "..." when W > 3 and as its longest prefix of display
\* width at most W without ellipsis when W <= 3; and after truncation and
\* padding every unstyled cell takes exactly W display columns.
C27_TruncationShrinks ==
  layout.fn = "writeTable" =>
    /\ \A i \in 1..Len(layout.p.widths) :
         /\ layout.p.widths[i] <= ComputedWidths[i]
         /\ layout.p.widths[i] =
              IF layout.p.truncated /\ i <= Len(layout.p.maxWidths) /\ layout.p.maxWidths[i] > 0
                THEN Min(ComputedWidths[i], layout.p.maxWidths[i]) ELSE ComputedWidths[i]
    /\ (Bordered /\ Unstyled) =>
         \A l \in 1..Len(layout.lines) : IsCellLine(layout.lines[l]) =>
           /\ Len(FramedCells(layout.lines[l])) = Len(layout.p.widths)
           /\ \A i \in 1..Len(layout.p.widths) :
                /\ StringWidth(FramedCells(layout.lines[l])[i]) = layout.p.widths[i] + 2
                /\ (/\ layout.p.wrapWidths = <<>>
                    /\ StringWidth(CellAt(SourceCells(layout.lines[l]), i)) > layout.p.widths[i])
                   => FramedCells(layout.lines[l])[i]
                        = <<" ">> \o alignCell(CutAsSpecified(CellAt(SourceCells(layout.lines[l]), i),
                                                              layout.p.widths[i]),
                                               layout.p.widths[i], layout.p.aligns[i]) \o <<" ">>

\* Max widths 4 and 2 over a seven-column text in either column: "a..." in
\* the first, "ab" in the second.
C27_Witness ==
  /\ Bordered /\ ~layout.t.numbered
  /\ layout.t.maxWidths = <<4, 2>>
  /\ layout.t.rows = <<(<<Long>>), <<Short, Long>>>>
  /\ layout.p.widths = <<4, 2>>
  /\ Len(layout.lines) = 4
  /\ layout.lines[2].text = <<"vertical", " ", "a", ".", ".", ".", " ", "vertical", " ", " ", " ", " ", "vertical">>
  /\ layout.lines[3].text = <<"vertical", " ", "a", " ", " ", " ", " ", "vertical", " ", "a", "b", " ", "vertical">>

\* ------------------------------------------------------------------ C25
Kinds(lines) == [l \in 1..Len(lines) |-> lines[l].k]
CountKind(lines, k) == Len(SelectSeq(lines, LAMBDA l : l.k = k))
Texts_(lines) == [l \in 1..Len(lines) |-> lines[l].text]

\* The first and the last line of data row i (0-based).
RowLines(i) == {l \in 1..Len(layout.lines) : layout.lines[l].k = "row" /\ layout.lines[l].r = i}
FirstOf(i) == CHOOSE l \in RowLines(i) : \A m \in RowLines(i) : l <= m
LastOf(i) == CHOOSE l \in RowLines(i) : \A m \in RowLines(i) : l >= m

\* The lines written between data rows i-1 and i.
Between(i) == SubSeq(layout.lines, LastOf(i - 1) + 1, FirstOf(i) - 1)

\* The lines of the header row where it is first written.
HeaderLines == SelectSeq(layout.lines, LAMBDA l : l.k = "header")
HeaderEmitted == SelectSeq(layout.lines, LAMBDA l : l.k \in {"header", "pageHeader"})
IsSep(line) == line.k \in {"headerSep", "groupSep", "pageSep", "pageHeaderSep", "footerSep"}

\* The last lines before a data row are a separator, the header row, a separator.
EndsWithHeader(lines) ==
  /\ Len(lines) >= Len(HeaderLines) + 2
  /\ IsSep(lines[Len(lines) - Len(HeaderLines) - 1])
  /\ lines[Len(lines) - Len(HeaderLines) - 1].text = lines[Len(lines)].text
  /\ Texts_(SubSeq(lines, Len(lines) - Len(HeaderLines), Len(lines) - 1)) = Texts_(HeaderLines)
  /\ IsSep(lines[Len(lines)])
  /\ Len(SelectSeq(lines, LAMBDA l : l.k \in {"header", "pageHeader"})) = Len(HeaderLines)

\* C25: with page size N > 0 and a non-empty header a table of n >= 1
\* data rows, bordered or not, writes the header row 1 + floor((n-1)/N)
\* times: once at the top, and once before each row whose 0-based index is a
\* positive multiple of N, with one separator line before and one after it;
\* with no header or N <= 0 the header is not written again.
C25_PageHeaders ==
  layout.fn = "writeTable" =>
    IF layout.p.pageSize > 0 /\ Len(layout.p.header) > 0
      THEN /\ Len(HeaderLines) >= 1
           /\ Len(HeaderEmitted) = Len(HeaderLines) * (1 + (Len(layout.p.rows) - 1) \div layout.p.pageSize)
           /\ \A l \in 1..Len(layout.lines) : layout.lines[l].k = "header" => l < FirstOf(0)
           /\ \A i \in 1..(Len(layout.p.rows) - 1) :
                IF i % layout.p.pageSize = 0
                  THEN EndsWithHeader(Between(i))
                  ELSE \A l \in 1..Len(Between(i)) : Between(i)[l].k \notin {"header", "pageHeader"}
      ELSE /\ HeaderEmitted = HeaderLines
           /\ Len(layout.p.header) = 0 => HeaderLines = <<>>
           /\ CountKind(layout.lines, "pageSep") = 0

\* Page size 2 and a header over four rows in an ASCII border: the header is
\* written twice, the second time before the third row.
C25_Witness ==
  /\ layout.fn = "writeTable"
  /\ layout.p.pageSize = 2 /\ Len(layout.p.rows) = 4 /\ layout.p.border = BorderASCII
  /\ Kinds(layout.lines) = <<"top", "header", "headerSep", "row", "row", "pageSep", "pageHeader",
                             "pageHeaderSep", "row", "row", "bottom">>
  /\ layout.lines[7].text = layout.lines[2].text
  /\ layout.lines[2].text = <<"|", " ", "h", "h", "h", " ", "|">>

\* ------------------------------------------------------------------ C26
KeyChange(i) == layout.p.groups[i + 1] # layout.p.groups[i]
KeyChanges == Cardinality({i \in 1..(Len(layout.p.rows) - 1) : KeyChange(i)})
PageBreaks == CountKind(layout.lines, "pageSep")

CallerCols == colCount(layout.t.header, layout.t.rows, layout.t.footer)
EntryOf(list, j, default) == IF j <= Len(list) THEN list[j] ELSE default
NumberedTable == layout.fn = "writeTable" /\ layout.t.numbered

\* The number column is prepended before the columns are counted and
\* measured.
NumberColumnPrepended ==
  /\ layout.p.header = IF Len(layout.t.header) > 0 THEN <<layout.t.numHdr>> \o layout.t.header ELSE <<>>
  /\ layout.p.rows = [r \in 1..Len(layout.t.rows) |-> <<<<Decimal(r)>>>> \o layout.t.rows[r]]
  /\ layout.p.footer = IF Len(layout.t.footer) > 0 THEN <<<<>>>> \o layout.t.footer ELSE <<>>
  /\ Len(layout.p.widths) = 1 + CallerCols
  /\ Len(layout.p.aligns) = 1 + CallerCols
  /\ Len(layout.p.styles) = 1 + CallerCols

\* Entry j of the caller's alignments, styles and wrap widths applies to the
\* caller's j-th column; the number column is Right, unstyled, not wrapped.
ShiftedDecorations ==
  /\ layout.p.aligns[1] = AlignRight /\ layout.p.styles[1] = ""
  /\ EntryOf(layout.p.wrapWidths, 1, 0) = 0
  /\ \A j \in 1..CallerCols :
       /\ layout.p.aligns[j + 1] = EntryOf(layout.t.aligns, j, AlignLeft)
       /\ layout.p.styles[j + 1] = EntryOf(layout.t.styles, j, "")
       /\ EntryOf(layout.p.wrapWidths, j + 1, 0) = EntryOf(layout.t.wrapWidths, j, 0)

\* Entry j of the caller's max widths applies to the caller's j-th column;
\* the number column is as wide as its cells.
ShiftedMaxWidths ==
  /\ layout.p.widths[1] = ComputedWidths[1]
  /\ \A j \in 1..CallerCols :
       layout.p.widths[j + 1] =
         IF EntryOf(layout.t.maxWidths, j, 0) > 0
           THEN Min(ComputedWidths[j + 1], layout.t.maxWidths[j]) ELSE ComputedWidths[j + 1]

\* C24: with numbering a number column is prepended (the 1-based decimal
\* row index in every data row, the number header in a non-empty header, an
\* empty cell in a non-empty footer) before the columns are counted and
\* measured, and entry j of the caller's alignments, styles, wrap widths and
\* max widths still applies to the caller's j-th column, not to the number
\* column.
C24_NumberingComposes ==
  NumberedTable => (NumberColumnPrepended /\ ShiftedDecorations /\ ShiftedMaxWidths)

\* The same without the max widths: the part of the claim the code keeps.
C24_NumberingShiftsDecorations ==
  NumberedTable => (NumberColumnPrepended /\ ShiftedDecorations)

\* ------------------------------------------------------------------ C30
\* Write was called with a non-empty batch of one concrete record type that
\* does not implement Formatter.
WroteTyped ==
  /\ Done /\ api = "Write" /\ Len(src) >= 1
  /\ \A i \in 1..Len(src) : src[i].caps = src[1].caps
  /\ "Formatter" \notin src[1].caps

\* C30: IsSupported agrees with Write: for a record type T without
\* Formatter and any tag f, IsSupported[T](f) is true exactly when Write of a
\* non-empty batch of T in format f does not fail with MissingInterface or
\* UnsupportedFormat; so when IsSupported[T](f) is true Write never returns
\* MissingInterface for a batch of T.
C30_IsSupportedAgreesWithWrite ==
  WroteTyped =>
    /\ IsSupported(src[1].caps, format) <=> ret \notin {ErrMissingInterface, ErrUnsupportedFormat}
    /\ IsSupported(src[1].caps, format) => ret # ErrMissingInterface

\* Markdown for rows without a header: IsSupported is false and Write fails
\* with MissingInterface; HTML for the same rows succeeds.
C30_Witness ==
  /\ WroteTyped /\ src[1].caps = TBasicRow /\ Len(src) = 2
  /\ format = Markdown /\ ret = ErrMissingInterface /\ w.out = <<>>
  /\ ~IsSupported(TBasicRow, Markdown)
  /\ IsSupported(TBasicRow, HTML)

\* ------------------------------------------------------------------ C22
\* The batch in which every later item answers the optional methods as item
\* zero does.
Uniform(items) == [i \in 1..Len(items) |-> [items[i] EXCEPT !.val = items[1].val]]
GroupsOf(items) == [i \in 1..Len(items) |-> Group(items[i])]
SameResult(r) == r.w.out = w.out /\ r.err = ret
UniformText(items) == [i \in 1..Len(items) |-> [items[i] EXCEPT !.v = items[1].v]]
TextGroups(items) == [i \in 1..Len(items) |-> Answers(items[i].v).group]

\* Group() is read: the format is Table and item zero implements Grouped.
ReadsGroups == format = Table /\ Has(src[1], "Grouped")

\* C22: in the batch renderers JSON, YAML, CSV, TSV, Table, Markdown,
\* HTML, List and ENV every optional decoration is read from item zero only:
\* a batch and the batch that differs from it only in what the later items'
\* optional methods return give the same output and the same error, except
\* for Group(), which is read from every item when item zero is Grouped.
C22_DecorationsFromItemZero ==
  /\ (Done /\ api = "Write" /\ format \in DecoFormats /\ Len(src) >= 1) =>
       \/ ReadsGroups /\ GroupsOf(src) # GroupsOf(Uniform(src))
       \/ SameResult(Write(NewSink(w.plan), format, Uniform(src), FALSE))
  /\ (layout.fn = "writeTable" /\ layout.items # <<>>) =>
       \/ "Grouped" \in layout.T /\ TextGroups(layout.items) # TextGroups(UniformText(layout.items))
       \/ layout.lines = tableLines(gatherTable(UniformText(layout.items), layout.T))
  /\ (layout.fn = "writeMarkdown" /\ layout.items # <<>>) =>
       layout.lines = markdownLines(gatherMarkdown(UniformText(layout.items), layout.T))

\* Two ENV items of which only the first exports and quotes: both lines are
\* exported and quoted.
C22_Witness ==
  /\ Done /\ api = "Write" /\ format = ENV /\ ret = OK
  /\ Len(src) = 2 /\ src[1].val = "text" /\ src[2].val = "alt"
  /\ Quote(src[1]) /\ ~Quote(src[2]) /\ Export(src[1]) /\ ~Export(src[2])
  /\ w.out = <<Tok("env", "%q", 1, 1, "export "), NL, Tok("env", "%q", 2, 1, "export ")>>

\* A Table batch of two items that differ in every answer but the group key
\* cannot differ in: the lines are those of item zero's answers.
C22_TableWitness ==
  /\ layout.fn = "writeTable" /\ layout.T = TableCaps \ {"Grouped"}
  /\ Len(layout.items) = 2 /\ layout.items[1].v = "alt" /\ layout.items[2].v = "text"
  /\ layout.t.title = <<"t", "t">> /\ layout.t.maxWidths = <<0, 2>> /\ layout.t.styles = <<"*">>
  /\ layout.t.border = BorderASCII /\ layout.t.pageSize = 1 /\ layout.t.wrapWidths = <<0, 1>>
  /\ layout.lines # tableLines(gatherTable(<<layout.items[2], layout.items[2]>>, layout.T))

\* The exception: three Table items whose keys are a, a, b while item zero's
\* answers would make them a, b, b.
C22_GroupWitness ==
  /\ Done /\ api = "Write" /\ ReadsGroups /\ ret = OK
  /\ GroupsOf(src) = <<"a", "a", "b">> /\ GroupsOf(Uniform(src)) = <<"a", "b", "b">>
  /\ ~SameResult(Write(NewSink(w.plan), format, Uniform(src), FALSE))

====
